---------------------------- MODULE Spec2Model ----------------------------
(***************************************************************************)
(* A model of the koda-agent execution engine: the cost tracker, the trace *)
(* collector, the working memory, the tool registry, the ReAct agent loop  *)
(* and the task-chain cache.                                               *)
(*                                                                         *)
(* Money is counted in thousandths of a dollar and tokens in thousands, so *)
(* that (tokens / 1000) * price_per_1k is an integer product.              *)
(***************************************************************************)
EXTENDS Integers, Sequences, FiniteSets, TLC

VARIABLES
    \* CostTracker
    budget,          \* config.budget_per_task_usd
    records,         \* CostTracker.records
    cache_savings,   \* CostTracker._cache_savings
    lastCall,        \* outcome of the latest record_call
    \* TraceCollector
    spans,           \* TraceCollector.spans
    active,          \* TraceCollector._active_span, as an index into spans (0: None)
    clock,           \* readings of time.time() taken by the collector so far
    \* WorkingMemory
    memory,          \* [store, order]
    \* AgentLoop.run
    pc,              \* position inside run
    max_iterations,  \* settings.llm.max_tool_iterations
    iteration,       \* the for-loop variable: [bound, val]
    conversation,    \* Conversation.messages
    pending,         \* tool calls of the current response not yet executed
    tool_results,    \* the tool_results list of the current iteration
    tool_calls_made,
    files_modified,
    final_response,
    result,          \* what run returned, or that it raised
    span,            \* the local variable span, as an index into spans (0: None)
    nextId,          \* ids the provider has handed out so far
    llm_calls,       \* number of llm.chat invocations
    executed,        \* log of registry.execute calls: [id, name, path, success, value]
    \* TaskCache
    cache_enabled,   \* config.enabled
    max_entries,     \* config.max_entries
    rows,            \* the task_chains table
    nextRowId,       \* AUTOINCREMENT sequence
    chain_ids,       \* TaskCache._chain_ids
    embeddings,      \* TaskCache._embeddings
    lastLookup,      \* outcome of the latest lookup
    lastOp,          \* the latest call made on the cache: [op, task]
    \* History of the calls made on a bare WorkingMemory
    memLog,          \* [n, last, pure, touched, latest]: the calls so far
    lastGet,         \* outcome of the latest get
    promoted,        \* a key that get found, and what became of the keys beside it
    \* AgentLoop.run called again on the same AgentLoop
    runNo,           \* how many times run has been entered
    system_prompt,   \* Conversation.system_prompt of the current run
    secondStart,     \* what the second run found: [calls, keys]
    \* History of the calls made on a bare TraceCollector
    traceOp,         \* the latest call: [n, op, arg]
    \* History of the calls made on a bare ToolRegistry
    lastExec,        \* the latest execute: [n, name, raised, threw, msg, result]
    \* Two threads of the host calling into one shared object
    threads,         \* per thread: the call it makes, its position and its locals
    connOwner,       \* the thread that created the sqlite3 connection (0: another one)
    base,            \* the shared object as it was when the two calls began
    \* Calls of the critic's Verifier and of the ComplexityRouter
    verifier,        \* the verify call: its inputs and, once made, what it returned
    routed,          \* the route call: its inputs and, once made, the decision
    \* The constructor of AgentLoop
    working_memory   \* the constructor's argument: <<>> for None, else <<scratchpad>>

costVars == <<budget, records, cache_savings, lastCall>>
traceVars == <<spans, active, clock>>
loopVars == <<pc, max_iterations, iteration, conversation, pending, tool_results,
              tool_calls_made, files_modified, final_response, result, span,
              nextId, llm_calls, executed, memory>>
cacheVars == <<cache_enabled, max_entries, rows, nextRowId, chain_ids, embeddings,
               lastLookup, lastOp>>
memVars == <<memLog, lastGet, promoted>>
runVars == <<runNo, system_prompt, secondStart>>
thrVars == <<threads, connOwner, base>>
callVars == <<verifier, routed, working_memory>>
opVars == <<traceOp, lastExec, thrVars, callVars>>
auxVars == <<memVars, runVars, opVars>>
vars == <<costVars, traceVars, loopVars, cacheVars, auxVars>>

-----------------------------------------------------------------------------
(* Bounds of the model *)

\* record_call invocations explored on a bare CostTracker
MaxCalls == 2
\* token counts (in thousands) tried for one call
MaxKTokens == 1
\* largest config.max_entries explored
MaxEntries == 2
\* store calls explored on one TaskCache
MaxStores == 3
\* lookup calls explored on one TaskCache
MaxLookups == 2
\* calls explored on one bare TraceCollector
MaxTraceOps == 4
MaxExecs == 3
MaxFiles == 3
MaxWords == 3
\* largest max_items a bare WorkingMemory is built with
MaxCapacity == 2
\* calls explored on one bare WorkingMemory
MaxMemOps == 5
\* largest settings.llm.max_tool_iterations explored
MaxIterations == 2
\* tool_use blocks the provider emits during one run (their ids are 1..MaxToolUses)
MaxToolUses == 2

-----------------------------------------------------------------------------
(* Generic helpers *)

RECURSIVE SumSeq(_)
SumSeq(s) == IF s = <<>> THEN 0 ELSE Head(s) + SumSeq(Tail(s))

SeqMap(Op(_), s) == [i \in 1..Len(s) |-> Op(s[i])]

SeqRange(s) == {s[i] : i \in 1..Len(s)}

-----------------------------------------------------------------------------
(* Cost tracker: src/src/cost/tracker.py *)

InputPer1k == 3
OutputPer1k == 15

Models == {"test-model", "unknown-model"}

\* config.pricing: the priced models
PricedModels == {"test-model"}

\* APICallRecord.total_cost
RecordTotalCost(r) == r.input_cost + r.output_cost

\* APICallRecord.total_tokens
RecordTotalTokens(r) == r.input_tokens + r.output_tokens

\* CostTracker.total_cost
TotalCost(recs) == SumSeq(SeqMap(RecordTotalCost, recs))

\* CostTracker.total_tokens
TotalTokens(recs) == SumSeq(SeqMap(RecordTotalTokens, recs))

\* CostTracker.call_count
CallCount(recs) == Len(recs)

\* The APICallRecord record_call builds (lines 75-95)
MakeRecord(model, input_tokens, output_tokens, cached_tokens) ==
    IF model \in PricedModels
    THEN [model |-> model, input_tokens |-> input_tokens,
          output_tokens |-> output_tokens,
          input_cost |-> input_tokens * InputPer1k,
          output_cost |-> output_tokens * OutputPer1k,
          cached_tokens |-> cached_tokens]
    ELSE [model |-> model, input_tokens |-> input_tokens,
          output_tokens |-> output_tokens,
          input_cost |-> 0, output_cost |-> 0,
          cached_tokens |-> cached_tokens]

CacheSaving(model, cached_tokens) ==
    IF model \in PricedModels THEN cached_tokens * InputPer1k ELSE 0

\* A ledger that takes the record back when the call raises
RecordsRolledBack(recs, rec, raised) == IF raised THEN recs ELSE Append(recs, rec)

\* The ledger record_call leaves behind: the record is appended (line 96) before
\* the budget is looked at, and stays there when the call raises
RecordsAfterCall(recs, rec, raised) == Append(recs, rec)

\* The budget test of record_call (line 109)
OverBudget(total, bud) == total > bud

\* The warning test of record_call (line 101): total > budget * 0.8
OverWarning(total, bud) == 5 * total > 4 * bud

\* The arguments of the warning include (total / budget) * 100 (line 106), which
\* raises ZeroDivisionError when the budget is 0
WarningRaises(total, bud) == OverWarning(total, bud) /\ bud = 0

\* CostTracker.record_call as a function of the tracker state: the new ledger,
\* the new savings, whether BudgetExceededError is raised (with its fields),
\* whether ZeroDivisionError is raised instead (failed), or the record is returned
RecordCall(recs, savings, bud, model, input_tokens, output_tokens, cached_tokens) ==
    LET rec == MakeRecord(model, input_tokens, output_tokens, cached_tokens)
        total == TotalCost(Append(recs, rec))
        failed == WarningRaises(total, bud)
        raised == ~failed /\ OverBudget(total, bud)
    IN [records |-> RecordsAfterCall(recs, rec, raised),
        cache_savings |-> savings + CacheSaving(model, cached_tokens),
        raised |-> raised,
        failed |-> failed,
        returned |-> ~failed /\ ~raised,
        spent |-> total,
        budget |-> bud,
        record |-> rec]

NoCall == [n |-> 0, raised |-> FALSE, failed |-> FALSE, returned |-> FALSE,
           spent |-> 0, budget |-> 0]

\* The outcome of the n-th record_call
CallOutcome(n, rc) ==
    [n |-> n, raised |-> rc.raised, failed |-> rc.failed, returned |-> rc.returned,
     spent |-> rc.spent, budget |-> rc.budget]

\* The outcome of the record_call that llm.chat made for the n-th response, with
\* the stop reason of that response
ChatOutcome(n, rc, stop_reason) ==
    [n |-> n, raised |-> rc.raised, failed |-> rc.failed, returned |-> rc.returned,
     spent |-> rc.spent, budget |-> rc.budget, stop_reason |-> stop_reason]

-----------------------------------------------------------------------------
(* Trace collector: src/src/trace/collector.py, src/src/trace/models.py *)

\* Python's None where a string is expected
None == "<None>"

\* TraceEvent: the event type and the tool it is about ("" when not a tool event)
Event(type, tool) == [event_type |-> type, tool |-> tool]

\* TraceSpan(name): a span is open while end_time is 0 (None)
NewSpan(name, now) == [name |-> name, start_time |-> now, end_time |-> 0, events |-> <<>>]

\* TraceSpan.close
CloseSpan(s, now) == [s EXCEPT !.end_time = now]

\* TraceSpan.add_event
AddEvent(s, ev) == [s EXCEPT !.events = Append(@, ev)]

\* The collector as a value: [spans, active, clock]
Collector(sp, act, clk) == [spans |-> sp, active |-> act, clock |-> clk]

\* TraceCollector.start_span
StartSpan(tr, name) ==
    LET now == tr.clock + 1
        sp == Append(tr.spans, NewSpan(name, now))
    IN Collector(sp, Len(sp), now)

\* TraceCollector.end_span(span); idx = 0 is the call without an argument
EndSpan(tr, idx) ==
    LET target == IF idx # 0 THEN idx ELSE tr.active
        now == tr.clock + 1
    IN IF target = 0
       THEN tr
       ELSE Collector([tr.spans EXCEPT ![target] = CloseSpan(@, now)],
                      IF target = tr.active THEN 0 ELSE tr.active,
                      now)

\* TraceCollector.record
Record(tr, ev) ==
    IF tr.active # 0
    THEN Collector([tr.spans EXCEPT ![tr.active] = AddEvent(@, ev)], tr.active, tr.clock)
    ELSE LET o == StartSpan(tr, "orphan")
         IN Collector([o.spans EXCEPT ![o.active] = AddEvent(@, ev)], o.active, o.clock)

RECURSIVE AllEventsFrom(_, _)
AllEventsFrom(sp, i) ==
    IF i > Len(sp) THEN <<>> ELSE sp[i].events \o AllEventsFrom(sp, i + 1)

\* The events of the whole trace in span order (get_events_by_type walks them so)
AllEvents(sp) == AllEventsFrom(sp, 1)

IsOfType(types, ev) == ev.event_type \in types

\* TraceCollector.get_events_by_type, for a set of types
EventsByType(sp, types) ==
    LET Keep(ev) == IsOfType(types, ev) IN SelectSeq(AllEvents(sp), Keep)

-----------------------------------------------------------------------------
(* Working memory: src/src/memory/working.py *)

\* list.remove(key): drops the first occurrence
RECURSIVE ListRemove(_, _)
ListRemove(s, k) ==
    IF s = <<>> THEN <<>>
    ELSE IF Head(s) = k THEN Tail(s)
    ELSE <<Head(s)>> \o ListRemove(Tail(s), k)

DictSet(d, k, v) == [x \in (DOMAIN d) \cup {k} |-> IF x = k THEN v ELSE d[x]]

DictDel(d, k) == [x \in (DOMAIN d) \ {k} |-> d[x]]

EmptyDict == [x \in {} |-> None]

NewMemory(cap) == [max_items |-> cap, store |-> EmptyDict, order |-> <<>>]

\* An eviction that drops the most recently used key
EvictNewest(m) ==
    IF Cardinality(DOMAIN m.store) > m.max_items
    THEN [m EXCEPT !.store = DictDel(@, m.order[Len(m.order)]),
                   !.order = SubSeq(@, 1, Len(@) - 1)]
    ELSE m

\* The eviction loop of WorkingMemory.set (lines 41-44)
RECURSIVE EvictOldest(_)
EvictOldest(m) ==
    IF Cardinality(DOMAIN m.store) > m.max_items
    THEN EvictOldest([m EXCEPT !.store = DictDel(@, Head(m.order)),
                               !.order = Tail(@)])
    ELSE m

\* WorkingMemory.set
MemorySet(m, k, v) ==
    LET ord == IF k \in DOMAIN m.store THEN ListRemove(m.order, k) ELSE m.order
    IN EvictOldest([m EXCEPT !.store = DictSet(@, k, v), !.order = Append(ord, k)])

\* get that reads without touching the access order
MemoryGetNoTouch(m, k, default) ==
    [memory |-> m,
     hit |-> k \in DOMAIN m.store,
     value |-> IF k \in DOMAIN m.store THEN m.store[k] ELSE default]

\* WorkingMemory.get: a stored key moves to the end of the access order
MemoryGet(m, k, default) ==
    [memory |-> IF k \in DOMAIN m.store
                THEN [m EXCEPT !.order = Append(ListRemove(@, k), k)]
                ELSE m,
     hit |-> k \in DOMAIN m.store,
     value |-> IF k \in DOMAIN m.store THEN m.store[k] ELSE default]

\* WorkingMemory.delete
\* A delete that drops the entry and leaves its key in the access order
MemoryDeleteKeepsOrder(m, k) ==
    [memory |-> IF k \in DOMAIN m.store
                THEN [m EXCEPT !.store = DictDel(@, k)]
                ELSE m,
     existed |-> k \in DOMAIN m.store]

MemoryDelete(m, k) ==
    [memory |-> IF k \in DOMAIN m.store
                THEN [m EXCEPT !.store = DictDel(@, k), !.order = ListRemove(@, k)]
                ELSE m,
     existed |-> k \in DOMAIN m.store]

\* WorkingMemory.clear
MemoryClear(m) == [m EXCEPT !.store = EmptyDict, !.order = <<>>]

EmptyContext == <<"Working memory: (empty)">>

\* One line of to_context_string (lines 78-83); the values of the model are
\* strings shorter than 200 characters, which are not cut
ContextLine(k, v) == "  " \o k \o ": " \o v

\* WorkingMemory.to_context_string, as the list of its lines
ToContextString(m) ==
    IF DOMAIN m.store = {} THEN EmptyContext
    ELSE <<"Working memory:">> \o
         [i \in 1..Len(m.order) |-> ContextLine(m.order[i], m.store[m.order[i]])]

-----------------------------------------------------------------------------
(* Tools and the registry: src/src/tools/base.py, src/src/tools/registry.py *)

\* ToolRegistry._tools: the names registered
RegisteredTools == {"write_file", "shell"}

ToolResult(output, success, error) ==
    [output |-> output, success |-> success, error |-> error]

\* What a tool's validate_input and execute can do with one call: return a
\* ToolResult or raise an exception carrying a message
ToolBehaviours ==
    { [raises |-> FALSE, result |-> ToolResult("out", TRUE, None), msg |-> ""],
      [raises |-> TRUE, result |-> ToolResult("", FALSE, None), msg |-> "boom"] }

\* BaseTool.safe_execute: an exception becomes a failed result
SafeExecute(beh) ==
    IF beh.raises THEN ToolResult("", FALSE, beh.msg) ELSE beh.result

\* The events ToolRegistry.execute has recorded when the call of safe_execute
\* itself raises (line 71): only the call
ExecuteEventsCallOnly(name) == << Event("tool_call", name) >>

\* The events ToolRegistry.execute records around a dispatched call
ExecuteEvents(name) == << Event("tool_call", name), Event("tool_result", name) >>

RECURSIVE RecordAll(_, _)
RecordAll(tr, evs) ==
    IF evs = <<>> THEN tr ELSE RecordAll(Record(tr, Head(evs)), Tail(evs))

\* ToolRegistry.execute: the result returned and the collector afterwards
Execute(tr, name, beh) ==
    IF name \notin RegisteredTools
    THEN [result |-> ToolResult("", FALSE, "Unknown tool: " \o name), trace |-> tr]
    ELSE [result |-> SafeExecute(beh), trace |-> RecordAll(tr, ExecuteEvents(name))]

\* tool.safe_execute(**input_data) binds the keys of the input as keyword
\* arguments of a bound method: a key named "self" collides with the receiver and
\* the call raises TypeError before safe_execute is entered
BindsKeywords(input) == "self" \notin DOMAIN input

BindErrorMsg == "BaseTool.safe_execute() got multiple values for argument 'self'"

\* ToolRegistry.execute(name, input_data): whether it raised, else the result it
\* returned, and the collector afterwards
ExecuteCall(tr, name, input, beh) ==
    IF name \in RegisteredTools /\ ~BindsKeywords(input)
    THEN [raised |-> TRUE, msg |-> BindErrorMsg,
          result |-> ToolResult("", FALSE, None),
          trace |-> RecordAll(tr, ExecuteEventsCallOnly(name))]
    ELSE LET ex == Execute(tr, name, beh)
         IN [raised |-> FALSE, msg |-> "", result |-> ex.result, trace |-> ex.trace]

-----------------------------------------------------------------------------
(* Content model: src/src/llm/models.py *)

TextContent(t) == [type |-> "text", text |-> t]

ToolUseContent(id, name, input) ==
    [type |-> "tool_use", id |-> id, name |-> name, input |-> input]

ToolResultContent(id, content, is_error) ==
    [type |-> "tool_result", tool_use_id |-> id, content |-> content,
     is_error |-> is_error]

Message(role, content) == [role |-> role, content |-> content]

IsToolUse(b) == b.type = "tool_use"

IsText(b) == b.type = "text"

RECURSIVE Reverse(_)
Reverse(q) == IF q = <<>> THEN <<>> ELSE Append(Reverse(Tail(q)), Head(q))

\* The tool_use blocks, last first
ToolCallsReversed(content) == Reverse(SelectSeq(content, IsToolUse))

\* LLMResponse.tool_calls: the tool_use blocks, in content order
ToolCalls(content) == SelectSeq(content, IsToolUse)

RECURSIVE JoinLines(_)
JoinLines(parts) ==
    IF parts = <<>> THEN ""
    ELSE IF Len(parts) = 1 THEN parts[1]
    ELSE parts[1] \o "\n" \o JoinLines(Tail(parts))

BlockText(b) == b.text

\* LLMResponse.text
ResponseText(content) == JoinLines(SeqMap(BlockText, SelectSeq(content, IsText)))

\* A test that looks for tool_use blocks instead of the stop reason
HasToolUseBlocks(resp) == SelectSeq(resp.content, IsToolUse) # <<>>

\* LLMResponse.has_tool_calls
HasToolCalls(resp) == resp.stop_reason = "tool_use"

\* Conversation.add_user_message
AddUserMessage(conv, text) == Append(conv, Message("user", <<TextContent(text)>>))

\* Conversation.add_assistant_message
AddAssistantMessage(conv, content) == Append(conv, Message("assistant", content))

\* The results are built but never sent back
ToolResultsDropped(conv, results) == conv

\* Conversation.add_tool_results
AddToolResults(conv, results) == Append(conv, Message("user", results))

-----------------------------------------------------------------------------
(* What the provider may answer *)

\* A value that is not a string (the model is free to send one as an input field)
NonString == "<non-string>"

\* The text of a response that ends the turn; "" is a response without text
AnswerChoices == {"", "Done.", "An ERROR occurred"}

\* The text that may accompany the tool_use blocks of a tool_use response
ThoughtChoices == {"", "Let me check."}

TextChoices(stop) == IF stop = "tool_use" THEN ThoughtChoices ELSE AnswerChoices

\* str.lower on the texts of the model
LowerText(t) ==
    CASE t = "An ERROR occurred" -> "an error occurred"
      [] t = "Done." -> "done."
      [] OTHER -> t

\* The lower-cased texts of the model that contain "error"
TextsWithError == {"an error occurred"}

StopReasons == {"end_turn", "tool_use"}

\* dict.get(key, ""): an absent field reads as ""
ToolInput(path, command) == [path |-> path, command |-> command]

\* An input object that also carries a key named "self"
SelfInput(path, command) == [path |-> path, command |-> command, self |-> "x"]

\* The (name, input) pairs a tool_use block may carry
ToolKinds ==
    { [name |-> "write_file", input |-> ToolInput(p, "")] : p \in {"", "a.py", "b.py"} }
    \cup { [name |-> "shell", input |-> ToolInput("", c)] : c \in {"ls", NonString} }
    \cup { [name |-> "frobnicate", input |-> ToolInput("", "")] }
    \cup { [name |-> "write_file", input |-> SelfInput("a.py", "")] }

\* A response whose tool_use blocks carry the next n ids
ResponseContent(text, kinds, firstId) ==
    (IF text = "" THEN <<>> ELSE <<TextContent(text)>>)
    \o [i \in 1..Len(kinds) |->
           ToolUseContent(firstId + i, kinds[i].name, kinds[i].input)]

\* Token usage (thousands, input and output) the provider reports for a call
LoopUsages == { <<1, 1>> }

\* Budgets tried for a run: the first call, the second call or no call exceeds it
LoopBudgets == {0, 18, 100}

\* config.model
ConfigModel == "test-model"

\* The exception messages of the environment
ProviderErrorMsg == "connection timeout"
SubscriptErrorMsg == "'int' object is not subscriptable"
ZeroDivisionMsg == "float division by zero"

-----------------------------------------------------------------------------
(* Agent loop: src/src/agent/loop.py, with LLMClient.chat of src/src/llm/client.py *)

\* settings.memory.max_working_items
MaxWorkingItems == 20

TheTask == "read foo.txt"

\* A response string as the fixed part the code writes and the part it fills in
Response(head, tail) == [head |-> head, tail |-> tail]

ResponseString(fr) == fr.head \o fr.tail

BudgetHead == "Task stopped: budget exceeded"
ErrorHead == "Agent encountered an error: "
MaxReachedHead == "Task stopped after "

\* "error" in final_response.lower()
ContainsError(fr) == fr.head = ErrorHead \/ LowerText(fr.tail) \in TextsWithError

\* AgentResult.success as run computes it (line 207)
Success(fr) == ResponseString(fr) # "" /\ ~ContainsError(fr)

Min(a, b) == IF a <= b THEN a ELSE b

\* An AgentResult that reports the configured cap as its iterations
AgentResultAtCap(fr, iter, maxIter, made, files, recs) ==
    [raised |-> FALSE,
     success |-> Success(fr),
     response |-> fr,
     iterations |-> maxIter,
     tool_calls_made |-> made,
     files_modified |-> files,
     total_tokens |-> TotalTokens(recs),
     total_cost_usd |-> TotalCost(recs)]

\* The AgentResult run returns (lines 203-215)
AgentResult(fr, iter, maxIter, made, files, recs) ==
    [raised |-> FALSE,
     success |-> Success(fr),
     response |-> fr,
     iterations |-> Min(iter + 1, maxIter),
     tool_calls_made |-> made,
     files_modified |-> files,
     total_tokens |-> TotalTokens(recs),
     total_cost_usd |-> TotalCost(recs)]

\* run left by an exception instead of a return
Raised(what) == [raised |-> TRUE, error |-> what]

NoResult == [raised |-> FALSE, pending |-> TRUE]

Unbound == [bound |-> FALSE, val |-> 0]

Trace == Collector(spans, active, clock)

SetTrace(tr) == /\ spans' = tr.spans
                /\ active' = tr.active
                /\ clock' = tr.clock

\* An iteration without its finally clause
FinallyMissing(tr, sp) == tr

\* The finally clause of an iteration (lines 196-198)
Finally(tr, sp) ==
    IF sp # 0 /\ tr.spans[sp].end_time = 0 THEN EndSpan(tr, sp) ELSE tr

\* The handlers' "if span: self.trace.end_span(span)"
EndIfSpan(tr, sp) == IF sp # 0 THEN EndSpan(tr, sp) ELSE tr

\* The budget handler closing the span without recording the warning
BudgetHandlerSilent(tr, sp) == Finally(EndIfSpan(tr, sp), sp)

\* except BudgetExceededError (lines 176-185), then finally
BudgetHandler(tr, sp) ==
    Finally(EndIfSpan(Record(tr, Event("budget_warning", "")), sp), sp)

\* The generic handler closing the span without recording the error
ErrorHandlerSilent(tr, sp) == Finally(EndIfSpan(tr, sp), sp)

\* except Exception (lines 187-194), then finally
ErrorHandler(tr, sp) ==
    Finally(EndIfSpan(Record(tr, Event("error", "")), sp), sp)

BudgetResponse(spent, bud) ==
    Response(BudgetHead, " ($" \o ToString(spent) \o " of $" \o ToString(bud) \o ")")

\* A write is tracked whether or not it succeeded
TrackFileAnyOutcome(files, name, input, res) ==
    IF name = "write_file"
    THEN IF input.path # "" /\ input.path \notin SeqRange(files)
         THEN Append(files, input.path)
         ELSE files
    ELSE files

\* The files_modified bookkeeping of one tool call (lines 152-155)
TrackFile(files, name, input, res) ==
    IF name = "write_file" /\ res.success
    THEN IF input.path # "" /\ input.path \notin SeqRange(files)
         THEN Append(files, input.path)
         ELSE files
    ELSE files

\* The ToolResult block built for one tool call (lines 163-171)
ResultBlock(tc, res) ==
    ToolResultContent(tc.id,
                      IF res.success THEN res.output
                      ELSE "Error: " \o res.error \o "\n" \o res.output,
                      ~res.success)

\* The value written to the scratchpad (line 160); the outputs of the model are
\* shorter than 200 characters
Observation(res) == IF res.output # "" THEN res.output ELSE res.error

InitCost(buds) ==
    /\ budget \in buds
    /\ records = <<>>
    /\ cache_savings = 0
    /\ lastCall = NoCall

InitTrace ==
    /\ spans = <<>>
    /\ active = 0
    /\ clock = 0

InitRun(iters) ==
    /\ pc = "idle"
    /\ max_iterations \in iters
    /\ iteration = Unbound
    /\ conversation = <<>>
    /\ pending = <<>>
    /\ tool_results = <<>>
    /\ tool_calls_made = <<>>
    /\ files_modified = <<>>
    /\ final_response = Response("", "")
    /\ result = NoResult
    /\ span = 0
    /\ nextId = 0
    /\ llm_calls = 0
    /\ executed = <<>>

\* bool(working_memory): None is false, and a WorkingMemory, which defines
\* __len__ (working.py lines 91-92) and no __bool__, is false when it is empty
Truthy(wm) == wm # <<>> /\ Cardinality(DOMAIN wm[1].store) > 0

\* AgentLoop.__init__, line 78: working_memory or WorkingMemory(max_items=...)
SelfMemory(wm) == IF Truthy(wm) THEN wm[1] ELSE NewMemory(MaxWorkingItems)

InitLoop(iters) ==
    /\ InitRun(iters)
    /\ memory = NewMemory(MaxWorkingItems)

InitCache(enabled, sizes) ==
    /\ cache_enabled \in enabled
    /\ max_entries \in sizes
    /\ rows = {}
    /\ nextRowId = 1
    /\ chain_ids = <<>>
    /\ embeddings = <<>>
    /\ lastLookup = [n |-> 0, hit |-> FALSE, events |-> <<>>]
    /\ lastOp = [op |-> "none", task |-> ""]

\* No call has been made on the bare working memory
NoPromoted == [key |-> None, peers |-> {}, waiting |-> {}, untouched |-> {}]

InitMemLog ==
    /\ memLog = [n |-> 0, last |-> "none", pure |-> TRUE, touched |-> <<>>,
                 latest |-> EmptyDict]
    /\ lastGet = [key |-> None, hit |-> FALSE, value |-> None]
    /\ promoted = NoPromoted

\* No run has been entered
InitRuns ==
    /\ runNo = 0
    /\ system_prompt = <<>>
    /\ secondStart = [calls |-> 0, keys |-> {}]

\* No call has been made on the bare collector
InitTraceOp == traceOp = [n |-> 0, op |-> "none", arg |-> 0]

\* No registry call observed yet
InitExec == lastExec = [n |-> 0, name |-> "", raised |-> FALSE, threw |-> FALSE,
                        msg |-> "", result |-> ToolResult("", FALSE, None)]

\* No call is in progress on another thread
InitThreads ==
    /\ threads = <<>>
    /\ connOwner = 0
    /\ base = <<>>

\* Neither verify nor route is being called
InitCalls ==
    /\ verifier = [pc |-> "none"]
    /\ routed = [pc |-> "none"]

\* No scratchpad is handed to the constructor
InitHanded == working_memory = <<>>

InitGhosts == InitMemLog /\ InitRuns /\ InitTraceOp /\ InitExec /\ InitThreads /\ InitCalls

InitAux == InitGhosts /\ InitHanded

\* run, lines 91-107
RunStart ==
    /\ pc = "idle"
    /\ runNo' = runNo + 1
    /\ tool_calls_made' = <<>>
    /\ files_modified' = <<>>
    /\ system_prompt' = ToContextString(memory)
    /\ conversation' = AddUserMessage(<<>>, TheTask)
    /\ final_response' = Response("", "")
    /\ pc' = "for"
    /\ UNCHANGED <<costVars, traceVars, cacheVars, memVars, opVars, secondStart, max_iterations,
                   iteration, pending, tool_results, result, span, nextId, llm_calls,
                   executed, memory>>

\* the next value range(max_iterations) yields
NextIteration == IF iteration.bound THEN iteration.val + 1 ELSE 0

\* for iteration in range(max_iterations): one more iteration (lines 109-113)
ForIterate ==
    /\ pc = "for"
    /\ NextIteration < max_iterations
    /\ iteration' = [bound |-> TRUE, val |-> NextIteration]
    /\ LET tr == StartSpan(Trace, "iteration_" \o ToString(NextIteration))
       IN /\ SetTrace(tr)
          /\ span' = tr.active
    /\ pc' = "chat"
    /\ UNCHANGED <<costVars, cacheVars, auxVars, max_iterations, conversation, pending,
                   tool_results, tool_calls_made, files_modified, final_response,
                   result, nextId, llm_calls, executed, memory>>

\* the range is exhausted: the else clause of the for loop (lines 200-201)
ForExhausted ==
    /\ pc = "for"
    /\ ~(NextIteration < max_iterations)
    /\ final_response' = Response(MaxReachedHead,
                                  ToString(max_iterations) \o " iterations (max reached)")
    /\ pc' = "return"
    /\ UNCHANGED <<costVars, traceVars, cacheVars, auxVars, max_iterations, iteration,
                   conversation, pending, tool_results, tool_calls_made,
                   files_modified, result, span, nextId, llm_calls, executed, memory>>

\* llm.chat raises before a response is parsed (client.py line 94): the request
\* event is recorded, the generic handler of run takes over
ChatProviderError ==
    /\ pc = "chat"
    /\ llm_calls' = llm_calls + 1
    /\ SetTrace(ErrorHandler(Record(Trace, Event("llm_request", "")), span))
    /\ final_response' = Response(ErrorHead, ProviderErrorMsg)
    /\ pc' = "return"
    /\ UNCHANGED <<costVars, cacheVars, auxVars, max_iterations, iteration, conversation,
                   pending, tool_results, tool_calls_made, files_modified, result,
                   span, nextId, executed, memory>>

\* llm.chat returns a response, or record_call raises inside it: budget-exceeded,
\* or ZeroDivisionError for the generic handler (client.py lines 80-154),
\* and run handles it up to the tool loop (loop.py lines 115-135, 176-185)
LLMChat ==
    /\ pc = "chat"
    /\ \E stop \in StopReasons, n \in 0..(MaxToolUses - nextId), usage \in LoopUsages :
         \E text \in TextChoices(stop), kinds \in [1..n -> ToolKinds] :
           LET content == ResponseContent(text, kinds, nextId)
               resp == [content |-> content, stop_reason |-> stop]
               rc == RecordCall(records, cache_savings, budget, ConfigModel,
                                usage[1], usage[2], 0)
               requested == Record(Trace, Event("llm_request", ""))
               responded == Record(requested, Event("llm_response", ""))
               thought == IF ResponseText(content) # ""
                          THEN Record(responded, Event("thought", ""))
                          ELSE responded
           IN /\ llm_calls' = llm_calls + 1
              /\ nextId' = nextId + n
              /\ records' = rc.records
              /\ cache_savings' = rc.cache_savings
              /\ lastCall' = ChatOutcome(lastCall.n + 1, rc, stop)
              /\ IF rc.raised
                 THEN /\ SetTrace(BudgetHandler(requested, span))
                      /\ final_response' = BudgetResponse(rc.spent, rc.budget)
                      /\ pc' = "return"
                      /\ UNCHANGED <<conversation, pending, tool_results>>
                 ELSE IF rc.failed
                 THEN /\ SetTrace(ErrorHandler(requested, span))
                      /\ final_response' = Response(ErrorHead, ZeroDivisionMsg)
                      /\ pc' = "return"
                      /\ UNCHANGED <<conversation, pending, tool_results>>
                 ELSE /\ conversation' = AddAssistantMessage(conversation, content)
                      /\ IF ~HasToolCalls(resp)
                         THEN /\ final_response' = Response("", ResponseText(content))
                              /\ SetTrace(Finally(EndIfSpan(thought, span), span))
                              /\ pc' = "return"
                              /\ UNCHANGED <<pending, tool_results>>
                         ELSE /\ pending' = ToolCalls(content)
                              /\ tool_results' = <<>>
                              /\ SetTrace(thought)
                              /\ pc' = "tools"
                              /\ UNCHANGED final_response
    /\ UNCHANGED <<budget, cacheVars, auxVars, max_iterations, iteration, tool_calls_made,
                   files_modified, result, span, executed, memory>>

\* The status line of a shell call slices the command (line 146): a command that is
\* not a string raises there
StatusRaises(tc) == tc.name = "shell" /\ tc.input.command = NonString

\* One pass of the tool loop that raises while building the status line
\* (lines 137-147), caught by the generic handler (lines 187-194)
ExecToolRaises ==
    /\ pc = "tools"
    /\ pending # <<>>
    /\ StatusRaises(Head(pending))
    /\ tool_calls_made' = Append(tool_calls_made, Head(pending).name)
    /\ SetTrace(ErrorHandler(Trace, span))
    /\ final_response' = Response(ErrorHead, SubscriptErrorMsg)
    /\ pc' = "return"
    /\ UNCHANGED <<costVars, cacheVars, auxVars, max_iterations, iteration, conversation,
                   pending, tool_results, files_modified, result, span, nextId,
                   llm_calls, executed, memory>>

\* One pass of the tool loop in which registry.execute raises (line 149), caught
\* by the generic handler (lines 187-194)
ExecToolCallRaises ==
    /\ pc = "tools"
    /\ pending # <<>>
    /\ ~StatusRaises(Head(pending))
    /\ \E beh \in ToolBehaviours :
         LET tc == Head(pending)
             ex == ExecuteCall(Trace, tc.name, tc.input, beh)
         IN /\ ex.raised
            /\ tool_calls_made' = Append(tool_calls_made, tc.name)
            /\ SetTrace(ErrorHandler(ex.trace, span))
            /\ final_response' = Response(ErrorHead, ex.msg)
    /\ pc' = "return"
    /\ UNCHANGED <<costVars, cacheVars, auxVars, max_iterations, iteration, conversation,
                   pending, tool_results, files_modified, result, span, nextId,
                   llm_calls, executed, memory>>

\* One pass of the tool loop (lines 136-171)
ExecTool ==
    /\ pc = "tools"
    /\ pending # <<>>
    /\ ~StatusRaises(Head(pending))
    /\ \E beh \in ToolBehaviours :
         LET tc == Head(pending)
             ex == ExecuteCall(Trace, tc.name, tc.input, beh)
         IN /\ ~ex.raised
            /\ tool_calls_made' = Append(tool_calls_made, tc.name)
            /\ SetTrace(ex.trace)
            /\ files_modified' = TrackFile(files_modified, tc.name, tc.input, ex.result)
            /\ memory' = MemorySet(memory, "last_" \o tc.name, Observation(ex.result))
            /\ tool_results' = Append(tool_results, ResultBlock(tc, ex.result))
            /\ executed' = Append(executed, [id |-> tc.id, name |-> tc.name,
                                             path |-> tc.input.path,
                                             success |-> ex.result.success,
                                             value |-> Observation(ex.result)])
    /\ pending' = Tail(pending)
    /\ pc' = "tools"
    /\ UNCHANGED <<costVars, cacheVars, auxVars, max_iterations, iteration, conversation,
                   final_response, result, span, nextId, llm_calls>>

\* The tool loop is over: the results go back as one user message (line 174) and
\* the finally clause closes the span
EndIteration ==
    /\ pc = "tools"
    /\ pending = <<>>
    /\ conversation' = AddToolResults(conversation, tool_results)
    /\ SetTrace(Finally(Trace, span))
    /\ pc' = "for"
    /\ UNCHANGED <<costVars, cacheVars, auxVars, max_iterations, iteration, pending,
                   tool_results, tool_calls_made, files_modified, final_response,
                   result, span, nextId, llm_calls, executed, memory>>

\* The return statement (lines 203-215); reading the loop variable when the loop
\* body never ran raises UnboundLocalError
Return ==
    /\ pc = "return"
    /\ result' = IF iteration.bound
                 THEN AgentResult(final_response, iteration.val, max_iterations,
                                  tool_calls_made, files_modified, records)
                 ELSE Raised("UnboundLocalError")
    /\ pc' = "done"
    /\ UNCHANGED <<costVars, traceVars, cacheVars, auxVars, max_iterations, iteration,
                   conversation, pending, tool_results, tool_calls_made,
                   files_modified, final_response, span, nextId, llm_calls,
                   executed, memory>>

LoopNext ==
    \/ RunStart
    \/ ForIterate
    \/ ForExhausted
    \/ ChatProviderError
    \/ LLMChat
    \/ ExecToolRaises
    \/ ExecToolCallRaises
    \/ ExecTool
    \/ EndIteration
    \/ Return

LoopInit ==
    /\ InitCost(LoopBudgets)
    /\ InitTrace
    /\ InitLoop(0..MaxIterations)
    /\ InitCache({TRUE}, {1})
    /\ InitAux

\* One run of the agent loop against every provider and tool behaviour
Spec == LoopInit /\ [][LoopNext]_vars

-----------------------------------------------------------------------------
(* A bare cost tracker *)

\* Budgets tried for a bare tracker
CostBudgets == {0, 18, 33}

\* CostTracker.record_call, whether it returns or raises
RecordCallAction ==
    /\ Len(records) < MaxCalls
    /\ \E model \in Models, input_tokens \in 0..MaxKTokens,
          output_tokens \in 0..MaxKTokens, cached_tokens \in {0, 1} :
         LET rc == RecordCall(records, cache_savings, budget, model,
                              input_tokens, output_tokens, cached_tokens)
         IN /\ records' = rc.records
            /\ cache_savings' = rc.cache_savings
            /\ lastCall' = CallOutcome(lastCall.n + 1, rc)
    /\ UNCHANGED <<budget, traceVars, loopVars, cacheVars, auxVars>>

CostInit ==
    /\ InitCost(CostBudgets)
    /\ InitTrace
    /\ InitLoop({0})
    /\ InitCache({TRUE}, {1})
    /\ InitAux

CostNext == RecordCallAction

\* Any sequence of record_call on one CostTracker
SpecCost == CostInit /\ [][CostNext]_vars

-----------------------------------------------------------------------------
(* Task cache: src/src/cache/task_cache.py *)

\* config.similarity_threshold, in hundredths
SimilarityThreshold == 85

CacheTasks == {"fix the login bug", "fix the login bug!", "compile the kernel"}

\* What is stored with a task: the tool chain and the file list
Payloads == { [tool_chain |-> "chainA", files_modified |-> "filesA"],
              [tool_chain |-> "chainB", files_modified |-> "filesB"] }

\* TaskCache._embed with the sentence-transformers model: the embedding is a
\* function of the text
Embed(task) == [of |-> task]

\* The dot product of two normalised embeddings, in hundredths
Similarity(e1, e2) ==
    IF e1 = e2 THEN 100
    ELSE IF {e1.of, e2.of} = {"fix the login bug", "fix the login bug!"} THEN 90
    ELSE 10

SeqMax(s) == CHOOSE m \in SeqRange(s) : \A x \in SeqRange(s) : x <= m

\* np.argmax: the first index holding the maximum
ArgMax(s) == CHOOSE i \in 1..Len(s) :
                /\ s[i] = SeqMax(s)
                /\ \A j \in 1..(i - 1) : s[j] < s[i]

\* SELECT COUNT(*) FROM task_chains
Size(table) == Cardinality(table)

\* An eviction that may take any row
EvictionCandidatesAny(table) == table

\* The rows "ORDER BY hit_count ASC LIMIT 1" may give: SQL leaves the order among
\* rows of equal hit_count open
EvictionCandidates(table) ==
    { r \in table : \A q \in table : r.hit_count <= q.hit_count }

\* Eviction only once the table is over capacity
MustEvictWhenOver(count, maxEntries) == count > maxEntries

\* The eviction test of store (line 207)
MustEvict(count, maxEntries) == count >= maxEntries

\* The index lists after store has inserted row id with this embedding
\* (lines 229-230); an eviction leaves them alone
IndexAfterStore(ids, embs, id, emb, evictedId) ==
    [chain_ids |-> Append(ids, id), embeddings |-> Append(embs, emb)]

\* TaskCache.store on a disabled cache returns at once
StoreDisabled ==
    /\ ~cache_enabled
    /\ nextRowId <= MaxStores
    /\ nextRowId' = nextRowId + 1
    /\ \E task \in CacheTasks : lastOp' = [op |-> "store", task |-> task]
    /\ UNCHANGED <<costVars, traceVars, loopVars, auxVars, cache_enabled, max_entries, rows,
                   chain_ids, embeddings, lastLookup>>

\* TaskCache.store (lines 205-230)
Store ==
    /\ cache_enabled
    /\ nextRowId <= MaxStores
    /\ \E task \in CacheTasks, payload \in Payloads :
         \E victim \in (IF MustEvict(Size(rows), max_entries) /\ rows # {}
                        THEN EvictionCandidates(rows) ELSE {[id |-> 0]}) :
           LET kept == IF victim.id = 0 THEN rows ELSE rows \ {victim}
               emb == Embed(task)
               row == [id |-> nextRowId, task_description |-> task,
                       tool_chain |-> payload.tool_chain,
                       files_modified |-> payload.files_modified,
                       hit_count |-> 0, embedding |-> emb]
               idx == IndexAfterStore(chain_ids, embeddings, nextRowId, emb, victim.id)
           IN /\ rows' = kept \cup {row}
              /\ nextRowId' = nextRowId + 1
              /\ chain_ids' = idx.chain_ids
              /\ embeddings' = idx.embeddings
              /\ lastOp' = [op |-> "store", task |-> task]
    /\ UNCHANGED <<costVars, traceVars, loopVars, auxVars, cache_enabled, max_entries,
                   lastLookup>>

\* The outcome of a lookup: what it returned and the events it recorded
LookupOutcome(n, returned, events) ==
    [n |-> n, hit |-> returned # {}, returned |-> returned, events |-> events]

\* The row after "UPDATE task_chains SET hit_count = hit_count + 1" left it alone
HitRowUntouched(row) == row

\* The row after "UPDATE task_chains SET hit_count = hit_count + 1" (lines 153-156)
HitRow(row) == [row EXCEPT !.hit_count = @ + 1]

\* The CachedChain lookup builds from the row it fetched (lines 158-165)
CachedChain(row, score) ==
    [task_description |-> row.task_description,
     tool_chain |-> row.tool_chain,
     files_modified |-> row.files_modified,
     hit_count |-> row.hit_count + 1,
     similarity |-> score]

\* TaskCache.lookup (lines 118-185); returned is {} for None, else {chain}
Lookup ==
    /\ lastLookup.n < MaxLookups
    /\ \E task \in CacheTasks :
         /\ lastOp' = [op |-> "lookup", task |-> task]
         /\ IF ~cache_enabled \/ embeddings = <<>>
            THEN /\ lastLookup' = LookupOutcome(lastLookup.n + 1, {}, <<>>)
                 /\ rows' = rows
            ELSE LET query == Embed(task)
                     sims == [i \in 1..Len(embeddings) |->
                                 Similarity(embeddings[i], query)]
                     best_idx == ArgMax(sims)
                     best_score == sims[best_idx]
                     chain_id == chain_ids[best_idx]
                     found == { r \in rows : r.id = chain_id }
                 IN IF best_score < SimilarityThreshold
                    THEN /\ lastLookup' = LookupOutcome(lastLookup.n + 1, {},
                                                        <<Event("cache_miss", "")>>)
                         /\ rows' = rows
                    ELSE IF found = {}
                    THEN /\ lastLookup' = LookupOutcome(lastLookup.n + 1, {}, <<>>)
                         /\ rows' = rows
                    ELSE LET row == CHOOSE r \in found : TRUE
                         IN /\ rows' = (rows \ {row}) \cup {HitRow(row)}
                            /\ lastLookup' =
                                 LookupOutcome(lastLookup.n + 1,
                                               {CachedChain(row, best_score)},
                                               <<Event("cache_hit", "")>>)
    /\ UNCHANGED <<costVars, traceVars, loopVars, auxVars, cache_enabled, max_entries,
                   nextRowId, chain_ids, embeddings>>

CacheInit ==
    /\ InitCost({0})
    /\ InitTrace
    /\ InitLoop({0})
    /\ InitCache(BOOLEAN, 0..MaxEntries)
    /\ InitAux

CacheNext ==
    \/ StoreDisabled
    \/ Store
    \/ Lookup

\* Any sequence of store and lookup on one TaskCache over a fresh database
SpecCache == CacheInit /\ [][CacheNext]_vars

-----------------------------------------------------------------------------
(* Two runs on one AgentLoop: src/scripts/run.py, run_interactive *)

\* agent.run is called again once the first run has returned or raised
\* (loop.py lines 91-107): the locals of run are new, while self.memory, self.cost
\* and self.trace are the objects the first run used
RunAgain ==
    /\ pc = "done"
    /\ runNo = 1
    /\ runNo' = 2
    /\ secondStart' = [calls |-> Len(records), keys |-> DOMAIN memory.store]
    /\ tool_calls_made' = <<>>
    /\ files_modified' = <<>>
    /\ system_prompt' = ToContextString(memory)
    /\ conversation' = AddUserMessage(<<>>, TheTask)
    /\ final_response' = Response("", "")
    /\ iteration' = Unbound
    /\ pending' = <<>>
    /\ tool_results' = <<>>
    /\ result' = NoResult
    /\ span' = 0
    /\ pc' = "for"
    /\ UNCHANGED <<costVars, traceVars, cacheVars, memVars, opVars, max_iterations, nextId,
                   llm_calls, executed, memory>>

\* The budgets of the two-run sessions explored
RunsBudgets == {18, 100}

RunsInit ==
    /\ InitCost(RunsBudgets)
    /\ InitTrace
    /\ InitLoop({1})
    /\ InitCache({TRUE}, {1})
    /\ InitAux

RunsNext ==
    \/ LoopNext
    \/ RunAgain

\* The scratchpads a caller hands to the constructor: none, an empty one (as
\* run_interactive and run_single of scripts/run.py do), one holding a note, and
\* one holding a note with room for a single entry
HandedMemories ==
    { <<>>,
      << NewMemory(MaxWorkingItems) >>,
      << MemorySet(NewMemory(MaxWorkingItems), "note", "x") >>,
      << MemorySet(NewMemory(1), "note", "x") >> }

ScratchpadInit ==
    /\ InitCost({100})
    /\ InitTrace
    /\ InitRun({1, 2})
    /\ working_memory \in HandedMemories
    /\ memory = SelfMemory(working_memory)
    /\ InitCache({TRUE}, {1})
    /\ InitGhosts

\* One run of an AgentLoop constructed with some scratchpad
SpecScratchpad == ScratchpadInit /\ [][LoopNext]_vars

\* Two consecutive runs on one AgentLoop, as the interactive mode makes them
SpecRuns == RunsInit /\ [][RunsNext]_vars

-----------------------------------------------------------------------------
(* A bare WorkingMemory: src/src/memory/working.py *)

MemKeys == {"a", "b", "c"}

MemValues == {"v1", "v2"}

\* The max_items a WorkingMemory is built with
Capacities == 0..MaxCapacity

\* The history after one more call op on key k: n counts the calls, touched lists
\* the distinct keys set or read so far, least recently used first, and latest
\* holds the value last set for each; a get that misses touches nothing, delete and
\* clear end the history of sets and gets
Logged(log, op, k, v) ==
    LET pure == log.pure /\ op \in {"set", "get", "miss"}
    IN [n |-> log.n + 1,
        last |-> op,
        pure |-> pure,
        touched |-> IF ~pure THEN <<>>
                    ELSE IF op = "miss" THEN log.touched
                    ELSE Append(ListRemove(log.touched, k), k),
        latest |-> IF ~pure THEN EmptyDict
                   ELSE IF op = "set" THEN DictSet(log.latest, k, v)
                   ELSE log.latest]

\* mem.set(k, v)
MemSet ==
    /\ memLog.n < MaxMemOps
    /\ \E k \in MemKeys, v \in MemValues :
         LET after == MemorySet(memory, k, v)
             evicted == (DOMAIN memory.store) \ (DOMAIN after.store)
         IN /\ memory' = after
            /\ memLog' = Logged(memLog, "set", k, v)
            /\ promoted' =
                 IF promoted.key = None \/ promoted.key \in evicted
                 THEN NoPromoted
                 ELSE [promoted EXCEPT !.waiting = @ \ evicted,
                                       !.untouched = (@ \ evicted) \ {k}]
    /\ UNCHANGED <<costVars, traceVars, cacheVars, runVars, opVars, lastGet, pc, max_iterations,
                   iteration, conversation, pending, tool_results, tool_calls_made,
                   files_modified, final_response, result, span, nextId, llm_calls,
                   executed>>

\* mem.get(k); the history follows the key of the latest get that found one
MemGet ==
    /\ memLog.n < MaxMemOps
    /\ \E k \in MemKeys :
         LET got == MemoryGet(memory, k, None)
         IN /\ memory' = got.memory
            /\ lastGet' = [key |-> k, hit |-> got.hit, value |-> got.value]
            /\ memLog' = Logged(memLog, IF got.hit THEN "get" ELSE "miss", k, None)
            /\ promoted' =
                 IF got.hit
                 THEN [key |-> k,
                       peers |-> (DOMAIN memory.store) \ {k},
                       waiting |-> (DOMAIN memory.store) \ {k},
                       untouched |-> (DOMAIN memory.store) \ {k}]
                 ELSE promoted
    /\ UNCHANGED <<costVars, traceVars, cacheVars, runVars, opVars, pc, max_iterations,
                   iteration, conversation, pending, tool_results, tool_calls_made,
                   files_modified, final_response, result, span, nextId, llm_calls,
                   executed>>

\* mem.delete(k)
MemDelete ==
    /\ memLog.n < MaxMemOps
    /\ \E k \in MemKeys :
         /\ memory' = MemoryDelete(memory, k).memory
         /\ memLog' = Logged(memLog, "delete", k, None)
         /\ promoted' = NoPromoted
    /\ UNCHANGED <<costVars, traceVars, cacheVars, runVars, opVars, lastGet, pc, max_iterations,
                   iteration, conversation, pending, tool_results, tool_calls_made,
                   files_modified, final_response, result, span, nextId, llm_calls,
                   executed>>

\* mem.clear()
MemClear ==
    /\ memLog.n < MaxMemOps
    /\ memory' = MemoryClear(memory)
    /\ memLog' = Logged(memLog, "clear", None, None)
    /\ promoted' = NoPromoted
    /\ UNCHANGED <<costVars, traceVars, cacheVars, runVars, opVars, lastGet, pc, max_iterations,
                   iteration, conversation, pending, tool_results, tool_calls_made,
                   files_modified, final_response, result, span, nextId, llm_calls,
                   executed>>

MemInit ==
    /\ InitCost({0})
    /\ InitTrace
    /\ InitRun({0})
    /\ InitCache({TRUE}, {1})
    /\ InitAux
    /\ \E cap \in Capacities : memory = NewMemory(cap)

MemNext ==
    \/ MemSet
    \/ MemGet
    \/ MemDelete
    \/ MemClear

\* Any sequence of set, get, delete and clear on one WorkingMemory
SpecMemory == MemInit /\ [][MemNext]_vars

-----------------------------------------------------------------------------
(* A bare TraceCollector: src/src/trace/collector.py *)

\* The event types recorded on the bare collector
TraceEventTypes == {"thought", "error"}

\* collector.start_span(name); the spans are named by their position
TraceStartSpan ==
    /\ traceOp.n < MaxTraceOps
    /\ SetTrace(StartSpan(Trace, "span_" \o ToString(Len(spans) + 1)))
    /\ traceOp' = [n |-> traceOp.n + 1, op |-> "start_span", arg |-> Len(spans) + 1]
    /\ UNCHANGED <<costVars, loopVars, cacheVars, memVars, runVars, lastExec, thrVars, callVars>>

\* collector.end_span(span) for a span started earlier, or end_span() (arg 0)
TraceEndSpan ==
    /\ traceOp.n < MaxTraceOps
    /\ \E idx \in 0..Len(spans) :
         /\ SetTrace(EndSpan(Trace, idx))
         /\ traceOp' = [n |-> traceOp.n + 1, op |-> "end_span", arg |-> idx]
    /\ UNCHANGED <<costVars, loopVars, cacheVars, memVars, runVars, lastExec, thrVars, callVars>>

\* collector.record(event_type, data)
TraceRecord ==
    /\ traceOp.n < MaxTraceOps
    /\ \E type \in TraceEventTypes :
         /\ SetTrace(Record(Trace, Event(type, "")))
         /\ traceOp' = [n |-> traceOp.n + 1, op |-> "record", arg |-> 0]
    /\ UNCHANGED <<costVars, loopVars, cacheVars, memVars, runVars, lastExec, thrVars, callVars>>

TraceInit ==
    /\ InitCost({0})
    /\ InitTrace
    /\ InitLoop({0})
    /\ InitCache({TRUE}, {1})
    /\ InitAux

TraceNext ==
    \/ TraceStartSpan
    \/ TraceEndSpan
    \/ TraceRecord

\* Any sequence of start_span, end_span and record on one TraceCollector
SpecTrace == TraceInit /\ [][TraceNext]_vars

-----------------------------------------------------------------------------
(* The bare ToolRegistry: src/src/tools/registry.py, src/src/tools/base.py *)

\* The names a caller may pass to ToolRegistry.execute
RegistryNames == RegisteredTools \cup {"frobnicate"}

\* The input objects a caller may pass
RegistryInputs == { ToolInput("a.py", ""), SelfInput("a.py", "") }

\* What a tool body may do: the behaviours of the loop's tools, an exception
\* raised without a message (str(e) is the empty string), and a failure the
\* tool reports itself
RegistryBehaviours ==
    ToolBehaviours
    \cup { [raises |-> TRUE, result |-> ToolResult("", FALSE, None), msg |-> ""],
           [raises |-> FALSE, result |-> ToolResult("", FALSE, "Command failed"),
            msg |-> ""] }

\* ToolRegistry.execute(name, input_data) (lines 45-85)
RegistryExecute ==
    /\ lastExec.n < MaxExecs
    /\ \E name \in RegistryNames, input \in RegistryInputs, beh \in RegistryBehaviours :
         LET ex == ExecuteCall(Trace, name, input, beh)
         IN /\ SetTrace(ex.trace)
            /\ lastExec' = [n |-> lastExec.n + 1, name |-> name, raised |-> ex.raised,
                            threw |-> name \in RegisteredTools /\ ~ex.raised /\ beh.raises,
                            msg |-> beh.msg, result |-> ex.result]
    /\ UNCHANGED <<costVars, loopVars, cacheVars, memVars, runVars, traceOp, thrVars, callVars>>

RegistryInit ==
    /\ InitCost({0})
    /\ InitTrace
    /\ InitLoop({0})
    /\ InitCache({TRUE}, {1})
    /\ InitAux

RegistryNext == RegistryExecute

\* Any sequence of execute calls on one ToolRegistry
SpecRegistry == RegistryInit /\ [][RegistryNext]_vars

-----------------------------------------------------------------------------
(* Two host threads calling one TaskCache: src/src/cache/task_cache.py *)

Threads == {1, 2}

\* The part of a TaskCache that store and lookup read and write
CacheState(table, ids, embs, nxt) ==
    [rows |-> table, chain_ids |-> ids, embeddings |-> embs, nextRowId |-> nxt]

\* The row store inserts (lines 215-225)
NewRow(id, task, payload) ==
    [id |-> id, task_description |-> task, tool_chain |-> payload.tool_chain,
     files_modified |-> payload.files_modified, hit_count |-> 0,
     embedding |-> Embed(task)]

\* A call a thread is about to make, with its locals unset
CacheCall(op, task, payload) ==
    [op |-> op, task |-> task, payload |-> payload, pc |-> "enter", error |-> "",
     count |-> 0, best_idx |-> 0, best_score |-> 0, chain_id |-> 0, hit |-> FALSE]

Finished(th) == th.pc \in {"done", "raised"}

\* The call ends by raising
Raise(c, th, error) == [cache |-> c, thread |-> [th EXCEPT !.pc = "raised", !.error = error]]

\* The call moves on to the statement at to
Goto(c, th, to) == [cache |-> c, thread |-> [th EXCEPT !.pc = to]]

\* sqlite3.connect (line 57) is called with the default check_same_thread: a
\* statement on the connection from a thread that did not create it raises
\* sqlite3.ProgrammingError
ThreadCheckRaises(owns) == ~owns

\* The next statement of TaskCache.store (lines 202-230) in a thread; owns says
\* whether the thread is the one that created the connection
StoreStatement(c, th, owns, enabled, maxEntries) ==
    CASE th.pc = "enter" ->
           { Goto(c, th, IF enabled THEN "count" ELSE "done") }
      [] th.pc = "count" ->
           IF ThreadCheckRaises(owns)
           THEN { Raise(c, th, "ProgrammingError") }
           ELSE { Goto(c, [th EXCEPT !.count = Size(c.rows)],
                       IF MustEvict(Size(c.rows), maxEntries) THEN "evict" ELSE "insert") }
      [] th.pc = "evict" ->
           IF c.rows = {}
           THEN { Goto(c, th, "insert") }
           ELSE { Goto([c EXCEPT !.rows = @ \ {v}], th, "insert") :
                    v \in EvictionCandidates(c.rows) }
      [] th.pc = "insert" ->
           { Goto([c EXCEPT !.rows = @ \cup {NewRow(c.nextRowId, th.task, th.payload)},
                            !.nextRowId = @ + 1], th, "append_emb") }
      [] th.pc = "append_emb" ->
           { Goto([c EXCEPT !.embeddings = Append(@, Embed(th.task))], th, "append_id") }
      [] th.pc = "append_id" ->
           \* last_insert_rowid() of the connection: the latest row inserted
           { Goto([c EXCEPT !.chain_ids = Append(@, c.nextRowId - 1)], th, "done") }

\* The next statement of TaskCache.lookup (lines 118-185) in a thread
LookupStatement(c, th, owns, enabled) ==
    CASE th.pc = "enter" ->
           IF ~enabled \/ c.embeddings = <<>>
           THEN { Goto(c, th, "done") }
           ELSE LET query == Embed(th.task)
                    sims == [i \in 1..Len(c.embeddings) |->
                                Similarity(c.embeddings[i], query)]
                    best_idx == ArgMax(sims)
                IN { Goto(c, [th EXCEPT !.best_idx = best_idx,
                                        !.best_score = sims[best_idx]],
                          IF sims[best_idx] < SimilarityThreshold
                          THEN "done" ELSE "chain_id") }
      [] th.pc = "chain_id" ->
           IF th.best_idx > Len(c.chain_ids)
           THEN { Raise(c, th, "IndexError") }
           ELSE { Goto(c, [th EXCEPT !.chain_id = c.chain_ids[th.best_idx]], "select") }
      [] th.pc = "select" ->
           IF ThreadCheckRaises(owns)
           THEN { Raise(c, th, "ProgrammingError") }
           ELSE LET found == { r \in c.rows : r.id = th.chain_id }
                IN IF found = {}
                   THEN { Goto(c, th, "done") }
                   ELSE { Goto(c, [th EXCEPT !.count = r.hit_count], "update") :
                            r \in found }
      [] th.pc = "update" ->
           { Goto([c EXCEPT !.rows = { IF r.id = th.chain_id THEN HitRow(r) ELSE r :
                                        r \in @ }],
                  [th EXCEPT !.hit = TRUE], "done") }

\* The next statement of the call a thread is in
CallStep(c, th, owns, enabled, maxEntries) ==
    IF th.op = "store"
    THEN StoreStatement(c, th, owns, enabled, maxEntries)
    ELSE LookupStatement(c, th, owns, enabled)

\* The TaskCache as the variables hold it
Cache == CacheState(rows, chain_ids, embeddings, nextRowId)

\* One thread executes its next statement
ThreadStep(t) ==
    /\ t \in DOMAIN threads
    /\ ~Finished(threads[t])
    /\ \E s \in CallStep(Cache, threads[t], connOwner = t, cache_enabled, max_entries) :
         /\ rows' = s.cache.rows
         /\ chain_ids' = s.cache.chain_ids
         /\ embeddings' = s.cache.embeddings
         /\ nextRowId' = s.cache.nextRowId
         /\ threads' = [threads EXCEPT ![t] = s.thread]
    /\ UNCHANGED <<costVars, traceVars, loopVars, memVars, runVars, traceOp, lastExec,
                   cache_enabled, max_entries, lastLookup, lastOp, connOwner, base,
                   callVars>>

\* The calls a thread may make
CacheCalls ==
    { CacheCall("store", task, payload) : task \in CacheTasks, payload \in Payloads }
    \cup { CacheCall("lookup", task, CHOOSE p \in Payloads : TRUE) : task \in CacheTasks }

\* A database that already holds one chain, as _load_embeddings finds it
OneChain ==
    CacheState({NewRow(1, "fix the login bug", CHOOSE p \in Payloads : TRUE)},
               <<1>>, <<Embed("fix the login bug")>>, 2)

\* A TaskCache over an empty database or over one that holds a chain, and two
\* threads each about to make one call; the connection was made by one of them
\* or by a third thread
CacheThreadsInit ==
    /\ InitCost({0})
    /\ InitTrace
    /\ InitLoop({0})
    /\ InitMemLog /\ InitRuns /\ InitTraceOp /\ InitExec /\ InitCalls /\ InitHanded
    /\ cache_enabled = TRUE
    /\ max_entries \in 1..MaxEntries
    /\ lastLookup = [n |-> 0, hit |-> FALSE, events |-> <<>>]
    /\ lastOp = [op |-> "none", task |-> ""]
    /\ base \in {CacheState({}, <<>>, <<>>, 1), OneChain}
    /\ rows = base.rows
    /\ chain_ids = base.chain_ids
    /\ embeddings = base.embeddings
    /\ nextRowId = base.nextRowId
    /\ threads \in [Threads -> CacheCalls]
    /\ connOwner \in {0} \cup Threads

CacheThreadsNext == \E t \in Threads : ThreadStep(t)

\* Two concurrent calls on one TaskCache, interleaved statement by statement
SpecCacheThreads == CacheThreadsInit /\ [][CacheThreadsNext]_vars

-----------------------------------------------------------------------------
(* Two host threads recording into one TraceCollector:
   src/src/trace/collector.py *)

\* A record call a thread is about to make; own is the local variable orphan
RecordCallOf(ev) == [ev |-> ev, pc |-> "test", own |-> 0]

\* The next statement of TraceCollector.record (lines 65-74) in a thread, with
\* start_span (lines 40-42) inlined
RecordStatement(tr, th) ==
    CASE th.pc = "test" ->
           [trace |-> tr,
            thread |-> [th EXCEPT !.pc = IF tr.active # 0 THEN "add_active"
                                                          ELSE "append_span"]]
      [] th.pc = "add_active" ->
           [trace |-> Collector([tr.spans EXCEPT ![tr.active] = AddEvent(@, th.ev)],
                                tr.active, tr.clock),
            thread |-> [th EXCEPT !.pc = "done"]]
      [] th.pc = "append_span" ->
           LET now == tr.clock + 1
               sp == Append(tr.spans, NewSpan("orphan", now))
           IN [trace |-> Collector(sp, tr.active, now),
               thread |-> [th EXCEPT !.pc = "set_active", !.own = Len(sp)]]
      [] th.pc = "set_active" ->
           [trace |-> Collector(tr.spans, th.own, tr.clock),
            thread |-> [th EXCEPT !.pc = "add_orphan"]]
      [] th.pc = "add_orphan" ->
           [trace |-> Collector([tr.spans EXCEPT ![th.own] = AddEvent(@, th.ev)],
                                tr.active, tr.clock),
            thread |-> [th EXCEPT !.pc = "done"]]

\* One thread executes its next statement of record
RecorderStep(t) ==
    /\ t \in DOMAIN threads
    /\ threads[t].pc # "done"
    /\ LET s == RecordStatement(Trace, threads[t])
       IN /\ SetTrace(s.trace)
          /\ threads' = [threads EXCEPT ![t] = s.thread]
    /\ UNCHANGED <<costVars, loopVars, cacheVars, memVars, runVars, traceOp, lastExec,
                   connOwner, base, callVars>>

\* The collectors the two calls may find: fresh, with an active span, and with
\* a span that has been ended
RecorderBases ==
    { Collector(<<>>, 0, 0),
      StartSpan(Collector(<<>>, 0, 0), "span_1"),
      EndSpan(StartSpan(Collector(<<>>, 0, 0), "span_1"), 0) }

\* The event of thread t: the tool field tells the two events apart
ThreadEvent(t, type) == Event(type, IF t = 1 THEN "T1" ELSE "T2")

TraceThreadsInit ==
    /\ InitCost({0})
    /\ InitLoop({0})
    /\ InitCache({TRUE}, {1})
    /\ InitMemLog /\ InitRuns /\ InitTraceOp /\ InitExec /\ InitCalls /\ InitHanded
    /\ connOwner = 0
    /\ base \in RecorderBases
    /\ spans = base.spans
    /\ active = base.active
    /\ clock = base.clock
    /\ \E ty \in [Threads -> TraceEventTypes] :
         threads = [t \in Threads |-> RecordCallOf(ThreadEvent(t, ty[t]))]

TraceThreadsNext == \E t \in Threads : RecorderStep(t)

\* Two concurrent record calls on one TraceCollector, interleaved statement by
\* statement
SpecTraceThreads == TraceThreadsInit /\ [][TraceThreadsNext]_vars

-----------------------------------------------------------------------------
(* The critic's verifier: src/src/critic/verifier.py *)

\* A file handed to verify: its path in parts, and what the syntax check and the
\* linter find in it
File(dir, stem, ext, syntax_ok, lint_ok) ==
    [dir |-> dir, stem |-> stem, ext |-> ext, syntax_ok |-> syntax_ok,
     lint_ok |-> lint_ok]

FilePath(f) == f.dir \o f.stem \o f.ext

\* Path(file_path).name
FileName(f) == f.stem \o f.ext

\* f.endswith(".py")
IsPython(f) == f.ext = ".py"

VerifierFiles ==
    { File("src/", "good", ".py", TRUE, TRUE),
      File("src/", "bad", ".py", FALSE, FALSE),
      File("", "ugly", ".py", TRUE, FALSE),
      File("", "readme", ".txt", FALSE, FALSE) }

\* CriticConfig(ast_check, run_lint, run_tests)
CriticConfigs == [ast_check : BOOLEAN, run_lint : BOOLEAN, run_tests : BOOLEAN]

CheckResult(check_name, status, message) ==
    [check_name |-> check_name, status |-> status, message |-> message]

Skipped(check_name) == CheckResult(check_name, "skipped", "Disabled")

\* One run of a tool by the verifier
ToolRun(tool, path) == [tool |-> tool, path |-> path]

\* Verifier._run_ast_check
RunAstCheck(f) ==
    IF f.syntax_ok
    THEN CheckResult("ast_check:" \o FileName(f), "passed", "Syntax OK")
    ELSE CheckResult("ast_check:" \o FileName(f), "failed", "Syntax error")

\* Verifier._run_lint_check
RunLintCheck(f) ==
    IF f.lint_ok
    THEN CheckResult("lint:" \o FileName(f), "passed", "No lint issues")
    ELSE CheckResult("lint:" \o FileName(f), "failed", "Lint issues found")

\* Verifier._run_tests
RunTests(tests_ok) ==
    IF tests_ok
    THEN CheckResult("tests", "passed", "All tests passed")
    ELSE CheckResult("tests", "failed", "Tests failed")

\* VerificationResult.passed
Passed(checks) ==
    \A k \in 1..Len(checks) : checks[k].status \in {"passed", "skipped"}

\* What verify has built so far: the checks, the tool runs, whether it has
\* returned early
Progress(checks, runs, returned) ==
    [checks |-> checks, runs |-> runs, returned |-> returned]

\* The syntax loop going on past a failed file
RECURSIVE AstLoopNoFailFast(_, _, _)
AstLoopNoFailFast(py, i, pr) ==
    IF i > Len(py) THEN pr
    ELSE AstLoopNoFailFast(py, i + 1,
                           Progress(Append(pr.checks, RunAstCheck(py[i])),
                                    Append(pr.runs, ToolRun("ast_check", FilePath(py[i]))),
                                    FALSE))

\* The syntax loop (lines 99-104), from the i-th Python file on
RECURSIVE AstLoop(_, _, _)
AstLoop(py, i, pr) ==
    IF i > Len(py) THEN pr
    ELSE LET check == RunAstCheck(py[i])
             now == Progress(Append(pr.checks, check),
                             Append(pr.runs, ToolRun("ast_check", FilePath(py[i]))),
                             check.status = "failed")
         IN IF now.returned THEN now ELSE AstLoop(py, i + 1, now)

\* The lint loop (lines 112-114)
RECURSIVE LintLoop(_, _, _)
LintLoop(py, i, pr) ==
    IF i > Len(py) THEN pr
    ELSE LintLoop(py, i + 1,
                  Progress(Append(pr.checks, RunLintCheck(py[i])),
                           Append(pr.runs, ToolRun("lint", FilePath(py[i]))),
                           FALSE))

\* [f for f in files if f.endswith(".py")]
PyFiles(files) == SelectSeq(files, IsPython)

\* Verifier.verify (lines 94-130): the result, the tool runs it made and the
\* event it recorded
Verify(config, files, tests_ok) ==
    LET py == PyFiles(files)
        start == Progress(<<>>, <<>>, FALSE)
        ast == IF config.ast_check
               THEN AstLoop(py, 1, start)
               ELSE Progress(<<Skipped("ast_check")>>, <<>>, FALSE)
        lint == IF config.run_lint
                THEN LintLoop(py, 1, ast)
                ELSE Progress(Append(ast.checks, Skipped("lint")), ast.runs, FALSE)
        tests == IF config.run_tests
                 THEN Progress(Append(lint.checks, RunTests(tests_ok)),
                               Append(lint.runs, ToolRun("run_tests", "tests/")), FALSE)
                 ELSE Progress(Append(lint.checks, Skipped("tests")), lint.runs, FALSE)
    IN IF ast.returned THEN ast ELSE tests

\* Verifier._record_check (lines 184-194): the event carries the check's name
CheckEvent(check) == Event("critic_check", check.check_name)

\* Verifier._record_check_summary (lines 196-207)
SummaryEvent == Event("critic_check", "summary")

\* The events one verify call records: the failed syntax check on the fail-fast
\* return (lines 102-104), the summary otherwise (line 129)
VerifyEvents(out) ==
    IF out.returned
    THEN << CheckEvent(out.checks[Len(out.checks)]) >>
    ELSE << SummaryEvent >>

\* The sequences over S of length at most n
SeqsUpTo(S, n) == UNION { [1..k -> S] : k \in 0..n }

\* verifier.verify(files) is called
VerifyCall ==
    /\ verifier.pc = "call"
    /\ LET out == Verify(verifier.config, verifier.files, verifier.tests_ok)
       IN /\ verifier' = [verifier EXCEPT !.pc = "returned", !.checks = out.checks,
                                          !.runs = out.runs]
          /\ SetTrace(RecordAll(Trace, VerifyEvents(out)))
    /\ UNCHANGED <<costVars, loopVars, cacheVars, memVars, runVars, traceOp, lastExec,
                   thrVars, routed, working_memory>>

\* A Verifier with some configuration, about to verify some files
VerifierInit ==
    /\ InitCost({0})
    /\ InitTrace
    /\ InitLoop({0})
    /\ InitCache({TRUE}, {1})
    /\ InitMemLog /\ InitRuns /\ InitTraceOp /\ InitExec /\ InitThreads /\ InitHanded
    /\ routed = [pc |-> "none"]
    /\ \E config \in CriticConfigs, files \in SeqsUpTo(VerifierFiles, MaxFiles),
          tests_ok \in BOOLEAN :
         verifier = [pc |-> "call", config |-> config, files |-> files,
                     tests_ok |-> tests_ok, checks |-> <<>>, runs |-> <<>>]

VerifierNext == VerifyCall

SpecVerifier == VerifierInit /\ [][VerifierNext]_vars

-----------------------------------------------------------------------------
(* The complexity router: src/src/agent/router.py.  Scores and confidences are
   in hundredths. *)

COMPLEX_KEYWORDS ==
    { "refactor", "migrate", "restructure", "redesign", "overhaul", "add feature",
      "implement", "build", "create new", "across files", "multiple files",
      "entire codebase", "test suite", "end to end", "integration", "optimize",
      "performance", "benchmark" }

SIMPLE_KEYWORDS ==
    { "fix typo", "rename", "add import", "remove unused", "update version",
      "change value", "read file", "what is", "explain", "show me", "find" }

\* The alternatives of the multi-step pattern (line 108)
StepIndicators == { "then", "after that", "next", "also", "and then", "finally" }

\* The words a task is made of here: none contains a keyword or an indicator
\* other than itself, so "kw in task_lower" is membership among the words
Vocabulary == { "refactor", "Refactor", "rename", "then", "a.py", "code" }

\* How many further plain words follow the listed ones
Paddings == { 0, 10, 51 }

\* A task: its first words, and the number of words "code" after them; the
\* empty string is TaskText(<<>>, 0)
TaskText(words, padding) == [words |-> words, padding |-> padding]

RouterTasks == { TaskText(w, p) : w \in SeqsUpTo(Vocabulary, MaxWords), p \in Paddings }

\* PlannerConfig.complexity_threshold
Thresholds == { 30, 60 }

\* str.lower on a word
Lower(w) == IF w = "Refactor" THEN "refactor" ELSE w

\* task.lower()
TaskLower(task) == [task EXCEPT !.words = [k \in DOMAIN @ |-> Lower(@[k])]]

\* The words of a text, the padding included when there is any
WordsOf(task) == SeqRange(task.words) \cup (IF task.padding > 0 THEN {"code"} ELSE {})

\* [kw for kw in keywords if kw in text]
Matches(keywords, text) == { kw \in keywords : kw \in WordsOf(text) }

\* len(task.split())
WordCount(task) == Len(task.words) + task.padding

\* len(re.findall(r"[\w/]+\.\w{1,4}", task))
FileRefs(task) == Cardinality({ k \in DOMAIN task.words : task.words[k] = "a.py" })

\* len(re.findall(r"(?:then|...)", task_lower))
StepCount(text) == Cardinality({ k \in DOMAIN text.words : text.words[k] \in StepIndicators })

\* A set as a list, in some order
RECURSIVE SetToSeq(_)
SetToSeq(S) ==
    IF S = {} THEN <<>>
    ELSE LET x == CHOOSE x \in S : TRUE IN <<x>> \o SetToSeq(S \ {x})

\* sep.join(parts)
RECURSIVE Join(_, _)
Join(sep, parts) ==
    IF parts = <<>> THEN ""
    ELSE IF Len(parts) = 1 THEN parts[1]
    ELSE parts[1] \o sep \o Join(sep, Tail(parts))

Max2(a, b) == IF a >= b THEN a ELSE b
Min2(a, b) == IF a <= b THEN a ELSE b
Abs(a) == IF a >= 0 THEN a ELSE 0 - a

\* One signal of route: what it adds to the score and the reason it gives
Signal(applies, delta, reason) ==
    IF applies THEN [delta |-> delta, reasons |-> <<reason>>]
    ELSE [delta |-> 0, reasons |-> <<>>]

RoutingDecision(complexity, confidence, reason) ==
    [complexity |-> complexity, confidence |-> confidence, reason |-> reason]

\* The length signal (lines 93-99)
LengthSignal(word_count) ==
    IF word_count > 50
    THEN Signal(TRUE, 20, "Long task description (" \o ToString(word_count) \o " words)")
    ELSE Signal(word_count < 10, 0 - 20,
                "Short task description (" \o ToString(word_count) \o " words)")

\* ComplexityRouter.route (lines 75-130)
Route(task, threshold) ==
    LET task_lower == TaskLower(task)
        complex_matches == Matches(COMPLEX_KEYWORDS, task_lower)
        simple_matches == Matches(SIMPLE_KEYWORDS, task_lower)
        signals ==
            << Signal(complex_matches # {}, 30 * Cardinality(complex_matches),
                      "Complex keywords: " \o Join(", ", SetToSeq(complex_matches))),
               Signal(simple_matches # {}, 0 - 30 * Cardinality(simple_matches),
                      "Simple keywords: " \o Join(", ", SetToSeq(simple_matches))),
               LengthSignal(WordCount(task)),
               Signal(FileRefs(task) > 2, 20,
                      "Multiple file references (" \o ToString(FileRefs(task)) \o ")"),
               Signal(StepCount(task_lower) > 0, 15 * StepCount(task_lower),
                      "Multi-step indicators (" \o ToString(StepCount(task_lower)) \o ")") >>
        raw == signals[1].delta + signals[2].delta + signals[3].delta
               + signals[4].delta + signals[5].delta
        reasons == signals[1].reasons \o signals[2].reasons \o signals[3].reasons
                   \o signals[4].reasons \o signals[5].reasons
        score == Max2(0, Min2(100, raw + 50))
    IN RoutingDecision(IF score >= threshold THEN "complex" ELSE "simple",
                       Abs(score - 50) * 2,
                       IF reasons # <<>> THEN Join("; ", reasons)
                       ELSE "Default classification")

\* router.route(task) is called
RouteCall ==
    /\ routed.pc = "call"
    /\ routed' = [routed EXCEPT !.pc = "returned",
                                !.decision = Route(routed.task, routed.threshold)]
    /\ UNCHANGED <<costVars, traceVars, loopVars, cacheVars, memVars, runVars, traceOp,
                   lastExec, thrVars, verifier, working_memory>>

\* A ComplexityRouter with some threshold, about to route some task
RouterInit ==
    /\ InitCost({0})
    /\ InitTrace
    /\ InitLoop({0})
    /\ InitCache({TRUE}, {1})
    /\ InitMemLog /\ InitRuns /\ InitTraceOp /\ InitExec /\ InitThreads /\ InitHanded
    /\ verifier = [pc |-> "none"]
    /\ \E task \in RouterTasks, threshold \in Thresholds :
         routed = [pc |-> "call", task |-> task, threshold |-> threshold,
                   decision |-> RoutingDecision("", 0, "")]

RouterNext == RouteCall

SpecRouter == RouterInit /\ [][RouterNext]_vars

-----------------------------------------------------------------------------
(* Properties *)

\* a step that is a record_call which raised BudgetExceededError
RaisingCall == lastCall'.n # lastCall.n /\ lastCall'.raised

\* C1 (as claimed): whenever record_call raises BudgetExceededError the failing
\* call is not appended: records is the same after the call as before it.
C1_FailingCallNotAppended == [][RaisingCall => records' = records]_vars

\* C1 (amended): whenever record_call raises BudgetExceededError the failing call
\* has been appended: records is the list before the call plus one record, and
\* total_cost, which includes it, is the spent the error carries.
C1_FailingCallAppended ==
    [][RaisingCall =>
         /\ Len(records') = Len(records) + 1
         /\ SubSeq(records', 1, Len(records)) = records
         /\ CallCount(records') = CallCount(records) + 1
         /\ TotalCost(records') = lastCall'.spent
         /\ TotalCost(records') > budget]_vars

\* a second call raised, after a first one that did not
C1_Witness == lastCall.raised /\ lastCall.n = 2 /\ Len(records) = 2

\* C2: when budget-exceeded is raised inside llm.chat, run returns an AgentResult
\* with success false and a response starting "Task stopped: budget exceeded".
C2_BudgetStopFails ==
    (pc = "done" /\ lastCall.raised) =>
        /\ ~result.raised
        /\ result.success = FALSE
        /\ result.response.head = BudgetHead

\* C3: with max_tool_iterations = 0 run returns, without raising, an AgentResult
\* with success false and the "max reached" response, and llm.chat is never invoked.
C3_ZeroIterations ==
    (pc = "done" /\ max_iterations = 0) =>
        /\ ~result.raised
        /\ result.success = FALSE
        /\ result.response.head = MaxReachedHead
        /\ llm_calls = 0

IdOfUse(b) == b.id

IdOfResult(b) == b.tool_use_id

IsToolResult(b) == b.type = "tool_result"

\* the ids of the tool_use blocks of a message, in order
UseIds(msg) == SeqMap(IdOfUse, SelectSeq(msg.content, IsToolUse))

\* the ids the tool_result blocks of a message answer, in order
ResultIds(msg) == SeqMap(IdOfResult, SelectSeq(msg.content, IsToolResult))

\* the ids answered by each message of the conversation
AllResultIds == [j \in 1..Len(conversation) |-> ResultIds(conversation[j])]

\* the ids emitted by each message of the conversation
AllUseIds == [j \in 1..Len(conversation) |-> UseIds(conversation[j])]

\* how many tool_result blocks of the user messages after position i answer id
AnswersAfter(rids, i, id) ==
    Cardinality({ <<j, k>> \in (1..Len(rids)) \X (1..MaxToolUses + 1) :
                    /\ j > i
                    /\ conversation[j].role = "user"
                    /\ k <= Len(rids[j])
                    /\ rids[j][k] = id })

\* C4: every ToolUse id of an assistant message has exactly one ToolResult with
\* that id in a later user message, unless the loop ended (or is still) in that
\* turn; no ToolResult carries an id the preceding assistant message did not emit.
C4_ToolUsesAnswered ==
    LET rids == AllResultIds
        uids == AllUseIds
    IN /\ \A i \in 1..Len(conversation) :
            conversation[i].role = "assistant" =>
                IF i < Len(conversation)
                THEN \A id \in SeqRange(uids[i]) : AnswersAfter(rids, i, id) = 1
                ELSE pc \in {"tools", "return", "done"}
       /\ \A j \in 1..Len(conversation) :
            (conversation[j].role = "user" /\ rids[j] # <<>>) =>
                /\ j > 1
                /\ conversation[j - 1].role = "assistant"
                /\ SeqRange(rids[j]) \subseteq SeqRange(uids[j - 1])

\* a finished run whose first response carried a tool use that was answered, and
\* whose last response carried a tool use that was never answered
C4_Witness ==
    /\ pc = "done"
    /\ Len(conversation) = 4
    /\ Len(UseIds(conversation[2])) = 1
    /\ ResultIds(conversation[3]) = UseIds(conversation[2])
    /\ conversation[4].role = "assistant"
    /\ UseIds(conversation[4]) # <<>>

\* the tool_call and tool_result events of the trace, in order
ToolEvents == EventsByType(spans, {"tool_call", "tool_result"})

\* C5: in the trace every tool_call event is followed by exactly one tool_result
\* event for the same tool, recorded before the next tool_call; no tool_result
\* occurs without such a tool_call before it.
C5_CallsPaired ==
    LET te == ToolEvents
    IN \A k \in 1..Len(te) :
         IF k % 2 = 1
         THEN /\ te[k].event_type = "tool_call"
              /\ k + 1 <= Len(te)
              /\ te[k + 1].event_type = "tool_result"
              /\ te[k + 1].tool = te[k].tool
         ELSE te[k].event_type = "tool_result"

\* a registered tool was dispatched and failed, and an unknown tool was asked for
C5_Witness ==
    /\ pc = "done"
    /\ Len(ToolEvents) = 2
    /\ \E k \in 1..Len(executed) : executed[k].name \in RegisteredTools
                                    /\ ~executed[k].success
    /\ \E k \in 1..Len(executed) : executed[k].name \notin RegisteredTools

\* C6: files_modified has no duplicates, each element is the path of a write_file
\* call that succeeded earlier in the run, and tool_calls_made is at least as long.
C6_FilesModified ==
    /\ \A i, j \in 1..Len(files_modified) :
         files_modified[i] = files_modified[j] => i = j
    /\ \A i \in 1..Len(files_modified) :
         \E k \in 1..Len(executed) : /\ executed[k].name = "write_file"
                                     /\ executed[k].success
                                     /\ executed[k].path = files_modified[i]
    /\ Len(tool_calls_made) >= Len(files_modified)

\* a.py was written twice with success and is listed once
C6_Witness ==
    /\ pc = "done"
    /\ files_modified = <<"a.py">>
    /\ Cardinality({ k \in 1..Len(executed) :
                       executed[k].path = "a.py" /\ executed[k].success }) = 2

\* the ids of the tool calls executed, in execution order
ExecutedIds == [k \in 1..Len(executed) |-> executed[k].id]

\* the tool calls of the response being worked on that have been executed
DoneOfTurn ==
    LET all == UseIds(conversation[Len(conversation)])
    IN SubSeq(all, 1, Len(all) - Len(pending))

\* C7: the tool calls of one response are executed one after another in the order
\* the model emitted them, and the ToolResult blocks of the following user message
\* are in that order (the i-th result answers the i-th ToolUse).
C7_EmissionOrder ==
    /\ \A i \in 1..(Len(conversation) - 1) :
         (conversation[i].role = "assistant" /\ conversation[i + 1].role = "user") =>
             ResultIds(conversation[i + 1]) = UseIds(conversation[i])
    /\ pc = "tools" =>
         /\ SeqMap(IdOfResult, tool_results) = DoneOfTurn
         /\ SeqMap(IdOfUse, pending)
              = SubSeq(UseIds(conversation[Len(conversation)]),
                       Len(DoneOfTurn) + 1,
                       Len(UseIds(conversation[Len(conversation)])))
         /\ Len(ExecutedIds) >= Len(DoneOfTurn)
         /\ SubSeq(ExecutedIds, Len(ExecutedIds) - Len(DoneOfTurn) + 1,
                   Len(ExecutedIds)) = DoneOfTurn

\* a response with text and two tool uses was executed and answered
C7_Witness ==
    /\ Len(conversation) >= 3
    /\ Len(conversation[2].content) = 3
    /\ Len(UseIds(conversation[2])) = 2
    /\ ResultIds(conversation[3]) = UseIds(conversation[2])

\* C8: however run ends (final answer, budget exceeded, iteration cap, exception
\* inside an iteration), when it returns every span it started is closed and the
\* collector has no active span.
C8_SpansClosed ==
    (pc = "done" /\ ~result.raised) =>
        /\ \A i \in 1..Len(spans) : spans[i].end_time # 0
        /\ active = 0

\* run went through a tool iteration and then hit the iteration cap
C8_Witness ==
    /\ pc = "done"
    /\ ~result.raised
    /\ result.response.head = MaxReachedHead
    /\ Len(spans) = 2
    /\ Len(executed) >= 1

\* C9: after any sequence of store and lookup calls the list of chain ids held in
\* memory contains exactly the ids of the rows of task_chains, one embedding per row.
C9_IndexInLockstep ==
    (cache_enabled /\ max_entries >= 1) =>
        /\ SeqRange(chain_ids) = { r.id : r \in rows }
        /\ Len(chain_ids) = Size(rows)
        /\ Len(embeddings) = Size(rows)

\* C10: after any sequence of store calls on an enabled cache with
\* max_entries = m >= 1 the number of persisted entries never exceeds m.
C10_SizeBounded ==
    (cache_enabled /\ max_entries >= 1) => Size(rows) <= max_entries

\* more rows were stored than the cache holds, so a store evicted
C10_Witness ==
    /\ cache_enabled
    /\ max_entries >= 1
    /\ nextRowId > max_entries + 1
    /\ Size(rows) = max_entries

\* the row the latest store inserted
LastStored == CHOOSE r \in rows : r.id = nextRowId - 1

\* a step that is lookup(t) straight after store(t, ...) on an enabled cache
LookupAfterStore ==
    /\ cache_enabled
    /\ lastOp.op = "store"
    /\ lastOp'.op = "lookup"
    /\ lastOp'.task = lastOp.task

\* C11: with a deterministic embedder and the cache enabled, after any earlier
\* stores and lookups, store(t, chain, files, cost) immediately followed by
\* lookup(t) returns a chain whose tool_chain is chain and whose files_modified is
\* files, with similarity 1.0.
C11_StoreThenLookup ==
    [][LookupAfterStore =>
         /\ lastLookup'.hit
         /\ \A c \in lastLookup'.returned :
              /\ c.tool_chain = LastStored.tool_chain
              /\ c.files_modified = LastStored.files_modified
              /\ c.similarity = 100]_vars

\* a step that is a lookup
LookupStep == lastLookup'.n # lastLookup.n

\* C12: a lookup that hits increments the hit_count of exactly the matched row by 1
\* and returns that new value in the chain; every other row is unchanged; a lookup
\* that returns nothing changes no hit_count.
C12_HitCountFrame ==
    [][LookupStep =>
         IF lastLookup'.hit
         THEN \E r \in rows :
                /\ rows' = (rows \ {r}) \cup {[r EXCEPT !.hit_count = r.hit_count + 1]}
                /\ \A c \in lastLookup'.returned :
                     /\ c.hit_count = r.hit_count + 1
                     /\ c.task_description = r.task_description
                     /\ c.tool_chain = r.tool_chain
                     /\ c.files_modified = r.files_modified
                     /\ c.similarity = Similarity(r.embedding, Embed(lastOp'.task))
         ELSE rows' = rows]_vars

\* a row was hit for the second time while another row was in the table
C12_Witness ==
    /\ lastLookup.hit
    /\ Size(rows) >= 2
    /\ \E c \in lastLookup.returned : c.hit_count = 2
    /\ \E r \in rows : r.hit_count = 0

\* C13: every lookup on an enabled cache records exactly one event: cache_miss
\* when it returns nothing (also when the cache holds no entries) and cache_hit
\* when it returns a chain.
C13_OneEventPerLookup ==
    (cache_enabled /\ lastLookup.n > 0) =>
        /\ Len(lastLookup.events) = 1
        /\ lastLookup.events[1].event_type =
             (IF lastLookup.hit THEN "cache_hit" ELSE "cache_miss")

\* the last c elements of a list
LastOf(ks, c) == SubSeq(ks, IF Len(ks) > c THEN Len(ks) - c + 1 ELSE 1, Len(ks))

\* C14: after any sequence of set (and get) calls on a WorkingMemory with capacity
\* c >= 1 the stored keys are exactly the last c distinct keys in access order, and
\* get(k) returns the value of the latest set(k, v) for every stored key k.
C14_LastDistinctKeys ==
    (memLog.pure /\ memory.max_items >= 1) =>
        LET kept == LastOf(memLog.touched, memory.max_items)
        IN /\ DOMAIN memory.store = SeqRange(kept)
           /\ memory.order = kept
           /\ \A k \in DOMAIN memory.store :
                /\ memory.store[k] = memLog.latest[k]
                /\ MemoryGet(memory, k, None).value = memLog.latest[k]
           /\ memLog.last = "get" => lastGet.value = memLog.latest[lastGet.key]

\* a set on a full memory of capacity 2 evicted the least recently used of three
\* keys, after a get had found a key
C14_Witness ==
    /\ memLog.pure
    /\ memory.max_items = 2
    /\ memLog.last = "set"
    /\ Len(memLog.touched) = 3
    /\ memLog.n = 5
    /\ lastGet.hit
    /\ memLog.touched[1] \notin DOMAIN memory.store

\* a step that is a get
GetStep == memLog'.n # memLog.n /\ memLog'.last \in {"get", "miss"}

\* a step that is a set evicting the key an earlier get had found
EvictsPromoted ==
    /\ memLog'.n # memLog.n
    /\ memLog'.last = "set"
    /\ promoted.key # None
    /\ promoted.key \in DOMAIN memory.store
    /\ promoted.key \notin DOMAIN memory'.store

\* get changes no stored value and no membership and leaves a key it found last in
\* the access order
GetIsReadTouch ==
    GetStep =>
        /\ memory'.store = memory.store
        /\ SeqRange(memory'.order) = SeqRange(memory.order)
        /\ lastGet'.hit => memory'.order[Len(memory'.order)] = lastGet'.key

\* C15 (as claimed): get(k) on a stored key promotes k: among the keys present at
\* that moment k is the last one to be evicted by later set calls, and get changes
\* no stored value and no membership.
C15_LastEvicted ==
    [][/\ GetIsReadTouch
       /\ EvictsPromoted => promoted.waiting \cap DOMAIN memory'.store = {}]_vars

\* C15 (amended): get(k) on a stored key promotes k: among the keys present at that
\* moment, those that are not set or read again afterwards are all evicted by later
\* set calls before k is, and get changes no stored value and no membership.
C15_LastEvictedOfUntouched ==
    [][/\ GetIsReadTouch
       /\ EvictsPromoted => promoted.untouched \cap DOMAIN memory'.store = {}]_vars

\* the key a get found is still stored after a later set evicted the key that was
\* beside it
C15_Witness ==
    /\ promoted.key # None
    /\ promoted.key \in DOMAIN memory.store
    /\ promoted.peers # {}
    /\ promoted.peers \cap DOMAIN memory.store = {}
    /\ memLog.last = "set"

\* C16: when run is called twice on the same AgentLoop, the scratchpad at the start
\* of the second run, and the system prompt built from it, contain no entry written
\* during the first run.
C16_ScratchpadPerRun ==
    runNo = 2 =>
        /\ secondStart.keys = {}
        /\ system_prompt = EmptyContext

\* the records of the calls made during the second run
SecondRunRecords == SubSeq(records, secondStart.calls + 1, Len(records))

\* C17: a CostTracker reused for two consecutive runs carries no cross-task state:
\* the budget check during the second run, and total_tokens and total_cost_usd of
\* the second AgentResult, count only the calls made during the second run.
C17_CostPerRun ==
    LET own == SecondRunRecords
    IN /\ (runNo = 2 /\ own # <<>>) =>
            (lastCall.raised <=> OverBudget(TotalCost(own), budget))
       /\ (runNo = 2 /\ pc = "done" /\ ~result.raised) =>
            /\ result.total_tokens = TotalTokens(own)
            /\ result.total_cost_usd = TotalCost(own)

\* C18: record_call raises BudgetExceededError exactly when the cumulative cost
\* including the new call is strictly greater than the budget (a total equal to
\* the budget does not raise); the error carries spent = that total and budget =
\* the configured budget; otherwise the call returns its record.
C18_RaisesWhenOver ==
    lastCall.n > 0 =>
        IF TotalCost(records) > budget
        THEN /\ lastCall.raised
             /\ lastCall.spent = TotalCost(records)
             /\ lastCall.budget = budget
        ELSE lastCall.returned

\* TraceSpan.duration_ms
DurationMs(s) == IF s.end_time = 0 THEN None ELSE (s.end_time - s.start_time) * 1000

\* a step that is end_span(span) on a span that is already closed
EndOfClosedSpan ==
    /\ traceOp'.n # traceOp.n
    /\ traceOp'.op = "end_span"
    /\ traceOp'.arg # 0
    /\ spans[traceOp'.arg].end_time # 0

\* C19: end_span is idempotent on an already-closed span: calling end_span(span) a
\* second time leaves the span's end_time and duration, and the collector's active
\* span, unchanged.
C19_EndSpanIdempotent ==
    [][EndOfClosedSpan =>
         /\ spans'[traceOp'.arg].end_time = spans[traceOp'.arg].end_time
         /\ DurationMs(spans'[traceOp'.arg]) = DurationMs(spans[traceOp'.arg])
         /\ active' = active]_vars

\* the spans still open
OpenSpans == { i \in 1..Len(spans) : spans[i].end_time = 0 }

\* the most recently started of the spans still open
MostRecentOpen == CHOOSE i \in OpenSpans : \A j \in OpenSpans : j <= i

\* C20: end_span() without an argument closes the most recent span that is still
\* open, for every sequence of start_span and end_span calls (after start A,
\* start B, end_span(), a second end_span() closes A).
C20_EndSpanClosesMostRecentOpen ==
    [][(/\ traceOp'.n # traceOp.n
        /\ traceOp'.op = "end_span"
        /\ traceOp'.arg = 0
        /\ OpenSpans # {}) =>
           spans'[MostRecentOpen].end_time # 0]_vars

\* a step that is a record call on the bare collector
RecordStep == traceOp'.n # traceOp.n /\ traceOp'.op = "record"

\* C21: record appends the event to the currently active span; it creates a span
\* named "orphan" only when no span is open, and then the event is the first event
\* of that orphan span; while some span is open, record never creates an orphan.
C21_OrphanOnlyWhenNoneOpen ==
    [][RecordStep =>
         IF OpenSpans # {}
         THEN /\ Len(spans') = Len(spans)
              /\ active' = active
              /\ active # 0
              /\ Len(spans'[active].events) = Len(spans[active].events) + 1
         ELSE /\ Len(spans') = Len(spans) + 1
              /\ spans'[Len(spans')].name = "orphan"
              /\ Len(spans'[Len(spans')].events) = 1
              /\ active' = Len(spans')]_vars


\* C22: ToolRegistry.execute never raises, whatever the name and the input: an
\* unknown name gives success = false with an error that begins "Unknown tool",
\* and a tool whose validation or body raises gives success = false with the
\* exception's message as the error.
C22_ExecuteNeverRaises ==
    lastExec.n > 0 =>
        /\ ~lastExec.raised
        /\ lastExec.name \notin RegisteredTools =>
              /\ ~lastExec.result.success
              /\ lastExec.result.error = "Unknown tool: " \o lastExec.name
        /\ lastExec.threw =>
              /\ ~lastExec.result.success
              /\ lastExec.result.error = lastExec.msg

\* C23: a ToolResult returned by execute is never partially populated: with
\* success = true the error is absent, with success = false the error is a
\* non-empty message, also when the tool raised an exception without a message.
C23_ResultFullyPopulated ==
    (lastExec.n > 0 /\ ~lastExec.raised) =>
        IF lastExec.result.success
        THEN lastExec.result.error = None
        ELSE lastExec.result.error \notin {None, ""}


\* the states a call made alone by the thread that owns the connection may
\* leave, from state c
RECURSIVE RunCall(_, _, _, _)
RunCall(c, th, enabled, maxEntries) ==
    IF Finished(th) THEN {c}
    ELSE UNION { RunCall(s.cache, s.thread, enabled, maxEntries) :
                   s \in CallStep(c, th, TRUE, enabled, maxEntries) }

\* the states two calls made one after the other may leave, in either order
Sequentially(c, call1, call2, enabled, maxEntries) ==
    UNION { RunCall(m, call2, enabled, maxEntries) :
              m \in RunCall(c, call1, enabled, maxEntries) }
    \cup UNION { RunCall(m, call1, enabled, maxEntries) :
                   m \in RunCall(c, call2, enabled, maxEntries) }

\* the two calls as they were when the threads began
CallOf(th) == CacheCall(th.op, th.task, th.payload)

\* C24: concurrent store and lookup calls on one TaskCache are serialised: once
\* both calls have ended, the cache is in a state that running the two calls one
\* after the other could have left.
C24_Serialised ==
    (threads # <<>> /\ \A t \in Threads : Finished(threads[t])) =>
        Cache \in Sequentially(base, CallOf(threads[1]), CallOf(threads[2]),
                               cache_enabled, max_entries)


\* how many times ev occurs among the events of all spans
Occurrences(sp, ev) ==
    LET all == AllEvents(sp)
    IN Cardinality({ k \in 1..Len(all) : all[k] = ev })

\* C25: after any interleaving of two record calls both events are stored, each
\* in exactly one span, and when no span was active at most one orphan span has
\* been created.
C25_ConcurrentRecords ==
    (threads # <<>> /\ \A t \in Threads : threads[t].pc = "done") =>
        /\ \A t \in Threads : Occurrences(spans, threads[t].ev) = 1
        /\ base.active = 0 => Len(spans) <= Len(base.spans) + 1


\* the Python files handed to the verify call
VerifiedPy == PyFiles(verifier.files)

\* the positions of the Python files that fail the syntax check
FailingPy == { k \in 1..Len(VerifiedPy) : ~VerifiedPy[k].syntax_ok }

\* the first of them
FirstFailing == CHOOSE k \in FailingPy : \A j \in FailingPy : k <= j

\* C26: with ast_check enabled, once a file fails the syntax check no later file
\* is syntax-checked, no lint or test check is run or appears in the result, and
\* passed is false; when the first file fails, the result holds exactly one check.
C26_FailFast ==
    (verifier.pc = "returned" /\ verifier.config.ast_check /\ FailingPy # {}) =>
        /\ verifier.checks = [k \in 1..FirstFailing |-> RunAstCheck(VerifiedPy[k])]
        /\ verifier.runs = [k \in 1..FirstFailing |->
                               ToolRun("ast_check", FilePath(VerifiedPy[k]))]
        /\ ~Passed(verifier.checks)
        /\ (IsPython(verifier.files[1]) /\ ~verifier.files[1].syntax_ok) =>
              Len(verifier.checks) = 1

\* lint and tests are enabled, the first file has a parse error and a
\* well-formed Python file follows it
C26_Witness ==
    /\ verifier.pc = "returned"
    /\ verifier.config = [ast_check |-> TRUE, run_lint |-> TRUE, run_tests |-> TRUE]
    /\ Len(verifier.files) >= 2
    /\ IsPython(verifier.files[1]) /\ ~verifier.files[1].syntax_ok
    /\ IsPython(verifier.files[2]) /\ verifier.files[2].syntax_ok
    /\ Len(verifier.checks) = 1


\* C27: route("") returns the default-classification decision: complexity
\* simple, confidence 0.0 and reason "Default classification".
C27_EmptyTaskDefault ==
    (routed.pc = "returned" /\ routed.task = TaskText(<<>>, 0)) =>
        routed.decision = RoutingDecision("simple", 0, "Default classification")


\* the messages an exception other than budget-exceeded may carry in a run
IterationErrors == {ProviderErrorMsg, SubscriptErrorMsg, BindErrorMsg, ZeroDivisionMsg}

\* the generic handler has run
ErrorCaught == final_response.head = ErrorHead

\* C28: once an exception other than budget-exceeded is raised inside an
\* iteration, the trace holds one error event, no further LLM call and no further
\* tool call is made, and run returns an AgentResult with success false and the
\* response "Agent encountered an error: <msg>".
C28_ErrorStopsRun ==
    /\ [](ErrorCaught =>
            /\ Len(EventsByType(spans, {"error"})) = 1
            /\ final_response.tail \in IterationErrors
            /\ pc \in {"return", "done"}
            /\ pc = "done" =>
                 /\ ~result.raised
                 /\ ~result.success
                 /\ result.response = final_response)
    /\ [][ErrorCaught =>
            /\ llm_calls' = llm_calls
            /\ executed' = executed
            /\ tool_calls_made' = tool_calls_made
            /\ final_response' = final_response]_vars

\* a run that an error stopped in its second iteration, after a tool had run
C28_Witness ==
    /\ pc = "done"
    /\ ErrorCaught
    /\ llm_calls = 2
    /\ executed # <<>>
    /\ max_iterations = MaxIterations

\* every call of the model so far was answered with stop reason tool_use and its
\* tools were run: each call has left an assistant message and a message of tool
\* results after the task, and no handler stopped the run
OnlyToolUse ==
    /\ final_response.head \notin {ErrorHead, BudgetHead}
    /\ Len(conversation) = 1 + 2 * llm_calls

\* C29: run makes at most max_tool_iterations LLM calls; when the model answers
\* every turn with tool_use (and nothing raises), the LLM is invoked exactly
\* N = max_tool_iterations times and run returns the response
\* "Task stopped after N iterations (max reached)".
C29_StopsAtMax ==
    /\ llm_calls <= max_iterations
    /\ (pc = "done" /\ OnlyToolUse) =>
         /\ llm_calls = max_iterations
         /\ ~result.raised
         /\ result.response =
              Response(MaxReachedHead,
                       ToString(max_iterations) \o " iterations (max reached)")

\* the response mentions "error" in some letter case
MentionsError(fr) == fr.head = ErrorHead \/ fr.tail = "An ERROR occurred"

\* C30: however run exits, it returns an AgentResult whose success is true
\* exactly when the final response is non-empty and does not contain "error" in
\* any letter case.
C30_SuccessRule ==
    pc = "done" =>
        /\ ~result.raised
        /\ result.success <=> (ResponseString(final_response) # ""
                               /\ ~MentionsError(final_response))


\* C31: the iterations field of the AgentResult run returns equals the number of
\* llm.chat invocations of the run: 1 for a single-turn answer, k+1 when k tool
\* turns are followed by a final answer, N on the iteration cap.
C31_IterationsCountCalls ==
    (pc = "done" /\ ~result.raised) =>
        /\ result.iterations = llm_calls
        /\ final_response.head = MaxReachedHead => result.iterations = max_iterations

\* a single-turn answer under a cap of two iterations
C31_Witness ==
    /\ pc = "done"
    /\ ~result.raised
    /\ max_iterations = 2
    /\ Len(conversation) = 2
    /\ final_response.head = ""
    /\ result.iterations = 1


\* the scratchpad object the caller handed in, as it is now: the loop writes to
\* it only when the constructor kept it
Scratchpad == IF Truthy(working_memory) THEN memory ELSE working_memory[1]

\* the value of the last result of the tool named name
LastValue(name) ==
    LET ks == { k \in 1..Len(executed) : executed[k].name = name }
    IN executed[CHOOSE k \in ks : \A j \in ks : j <= k].value

\* C32: after a run in which a tool named T was executed, the scratchpad handed
\* to the constructor holds the key last_T with the last T result's output, or
\* its error when the output is empty.
C32_ScratchpadHoldsLast ==
    (pc = "done" /\ working_memory # <<>>) =>
        \A k \in 1..Len(executed) :
            LET key == "last_" \o executed[k].name
            IN /\ key \in DOMAIN Scratchpad.store
               /\ Scratchpad.store[key] = LastValue(executed[k].name)


\* a step of store on a table that has reached max_entries and holds a row
StoreEvicts ==
    /\ cache_enabled
    /\ nextRowId' = nextRowId + 1
    /\ MustEvict(Size(rows), max_entries)
    /\ rows # {}

\* the rows of least hit_count
LeastUsed(table) == { r \in table : \A q \in table : r.hit_count <= q.hit_count }

\* the new entry is in the table and is the only row that came
NewEntryKept ==
    /\ Cardinality(rows' \ rows) = 1
    /\ \A r \in rows' \ rows : r.id = nextRowId

BudgetWarnings == EventsByType(spans, {"budget_warning"})

\* C34: once a record_call has returned with the cumulative cost above 80% of the
\* budget (and not above the budget), the trace holds a budget_warning event;
\* while the cost is at or below 80% it holds none.
C34_WarningEventAt80 ==
    (lastCall.n > 0 /\ lastCall.returned) =>
        (OverWarning(lastCall.spent, lastCall.budget) <=> BudgetWarnings # <<>>)


IsFailed(check) == check.status = "failed"

\* the events the claim expects of a verify call that returned these checks
ExpectedCheckEvents(checks) ==
    LET failed == SelectSeq(checks, IsFailed)
    IN [k \in 1..Len(failed) |-> CheckEvent(failed[k])] \o << SummaryEvent >>

\* C35: a verify call with a trace recorder has recorded one critic_check event
\* for each failed check and one summary critic_check event at its end, on the
\* fail-fast path as well.
C35_CheckEventsAndSummary ==
    verifier.pc = "returned" =>
        EventsByType(spans, {"critic_check"}) = ExpectedCheckEvents(verifier.checks)


\* a step in which llm.chat is called
ChatCalled == llm_calls' = llm_calls + 1

\* C36: on every llm.chat call of a run the system prompt sent holds the
\* scratchpad contents as they are at that call, the last_<tool> entries written
\* by earlier iterations included.
C36_PromptFollowsScratchpad ==
    [][ChatCalled => system_prompt = ToContextString(memory)]_vars


\* the llm.chat calls of the run in which the provider returned a response: all
\* but the one that ended the run with the provider's exception
ProviderReturned ==
    IF final_response = Response(ErrorHead, ProviderErrorMsg)
    THEN llm_calls - 1
    ELSE llm_calls

\* the llm_request and llm_response events of the trace, in order
ChatEvents == EventsByType(spans, {"llm_request", "llm_response"})

\* C37: every llm.chat call records llm_request, and llm_response when the
\* provider returned, whatever the cost tracker does: the trace holds one
\* llm_response per returned call, each right after its llm_request.
C37_ResponsePerReturnedCall ==
    /\ Len(EventsByType(spans, {"llm_request"})) = llm_calls
    /\ Len(EventsByType(spans, {"llm_response"})) = ProviderReturned
    /\ \A k \in 1..Len(ChatEvents) :
         ChatEvents[k].event_type = "llm_response" =>
             k > 1 /\ ChatEvents[k - 1].event_type = "llm_request"


\* BudgetExceededError was raised for the latest LLM call
BudgetRaised == lastCall.raised

IsBudgetWarning(ev) == ev.event_type = "budget_warning"

\* C38: when budget-exceeded is raised for the LLM call of an iteration the loop
\* exits at once: no assistant message is appended for that response, none of its
\* tool calls is executed, one budget_warning event is recorded in the
\* iteration's span, and no later LLM call is made.
C38_BudgetStopsRun ==
    /\ [](BudgetRaised =>
            /\ pc \in {"return", "done"}
            /\ final_response.head = BudgetHead
            /\ Len(conversation) = 2 * llm_calls - 1
            /\ span # 0
            /\ Len(SelectSeq(spans[span].events, IsBudgetWarning)) = 1
            /\ Len(BudgetWarnings) = 1)
    /\ [][BudgetRaised' =>
            /\ conversation' = conversation
            /\ executed' = executed
            /\ tool_calls_made' = tool_calls_made
            /\ BudgetRaised => llm_calls' = llm_calls]_vars

\* the second LLM call of a run went over the budget after a tool had run
C38_Witness ==
    /\ pc = "done"
    /\ BudgetRaised
    /\ llm_calls = 2
    /\ executed # <<>>
    /\ spans[span].name = "iteration_1"


\* the latest llm.chat call returned a response to the loop
ChatReturned == lastCall.n > 0 /\ lastCall.returned

\* the assistant message of the latest response
LastAnswer ==
    LET at == CHOOSE j \in 1..Len(conversation) :
                  /\ conversation[j].role = "assistant"
                  /\ \A k \in (j + 1)..Len(conversation) : conversation[k].role # "assistant"
    IN conversation[at]

\* the tool loop is over for a response that had no tool_use block
NothingToRun == pc = "tools" /\ pending = <<>> /\ tool_results = <<>>

C39_WitnessEmptyTurn ==
    /\ pc = "for"
    /\ llm_calls = 1
    /\ lastCall.stop_reason = "tool_use"
    /\ conversation[Len(conversation)] = Message("user", <<>>)


\* a get that found nothing, or a delete that removed nothing
MissingKeyCall ==
    \/ memLog'.last = "miss"
    \/ memLog'.last = "delete" /\ DOMAIN memory'.store = DOMAIN memory.store

\* C40: on a WorkingMemory with max_items >= 1, after any calls of set, get,
\* delete and clear the access-order list holds exactly the keys of the store,
\* each once, the entries never outnumber max_items, and a get or a delete of a
\* missing key changes nothing.
C40_OrderMatchesStore ==
    /\ [](memory.max_items >= 1 =>
            /\ SeqRange(memory.order) = DOMAIN memory.store
            /\ Len(memory.order) = Cardinality(DOMAIN memory.store)
            /\ Cardinality(DOMAIN memory.store) <= memory.max_items)
    /\ [][(memory.max_items >= 1 /\ memLog'.n = memLog.n + 1 /\ MissingKeyCall) =>
             memory' = memory]_vars

\* a memory full with two entries on which the latest call was a delete: the
\* key it named was missing, since both entries are still there
C40_Witness ==
    /\ memory.max_items = 2
    /\ Cardinality(DOMAIN memory.store) = 2
    /\ memLog.last = "delete"
    /\ memLog.n = MaxMemOps

=============================================================================
